---------------------------- MODULE Spec2Model ----------------------------
(***************************************************************************)
(* The synthetic training-corpus generator of the text classifier         *)
(* (docs/development/text-classifier/scripts/generate_training_data.py)   *)
(* as a state machine: the script's process (seed at import, main() with  *)
(* its generator calls, shuffle, split, count, write), the generators and *)
(* add_typos as operators computed the way the code computes them, and    *)
(* the label lookup of train_classifier.py that consumes the corpus.      *)
(*                                                                         *)
(* A text is a sequence of characters, one string per character; a        *)
(* character outside ASCII is written "U+XXXX".                           *)
(***************************************************************************)
EXTENDS Integers, Sequences, FiniteSets, TLC

VARIABLES
  cfg,                \* the counts main() passes to the seven generators
  stream,             \* which sequence the seeded generator produces
  run,                \* number of the running process of the script, from 1
  pc,                 \* the process's position in the script
  rng,                \* state of the random module's global generator
  budget_examples, shopping_examples, reminder_examples, calendar_examples,
  note_examples, quote_examples, ambiguous_examples,
  all_examples,
  origin,             \* origin[i]: the place in the concatenation of the example now at i
  train_examples, test_examples,
  train_counts,       \* Counter over the labels of train_examples
  file,               \* content of training_set_v2.json on disk
  written,            \* the output dict each finished process dumped, in order
  inp, out            \* arguments and result of a single call of a function

vars == <<cfg, stream, run, pc, rng, budget_examples, shopping_examples,
          reminder_examples, calendar_examples, note_examples, quote_examples,
          ambiguous_examples, all_examples, origin, train_examples, test_examples,
          train_counts, file, written, inp, out>>

-----------------------------------------------------------------------------
(* Bounds of the model *)

\* A mixed configuration requests at most this many examples over all generators.
MaxTotal == 3
\* A single-generator configuration requests 0..MaxSingle examples of one generator.
MaxSingle == 21
\* Number of sequences tried for the seeded generator.
NumStreams == 3
\* random.random() is a multiple of 2^-53; the model keeps RandomBits bits of it.
RandomBits == 6
\* Processes of the script run one after the other.
MaxRuns == 2
\* Strides tried when a single call fills the slots of a template.
MaxStride == 2
\* Passes of a generator's loop followed when its tables are given.
MaxPasses == 2
\* Examples a failing json.dump may have written.
MaxPartial == 1
\* States of the random module a single pass of a loop is started in.
NumPassStates == 400

-----------------------------------------------------------------------------
(* Constants of the program *)

Seed == 42
DefaultTypoRate == 10
BudgetTypoRate == 15
ShoppingTypoRate == 12
ReminderTypoRate == 12
CalendarTypoRate == 12
NoteTypoRate == 12
QuoteTypoRate == 10
AmbiguousTypoRate == 15
ExpenseTenths == 7
IncomeTenths == 3
SplitTenths == 9
MainBudgetCount == 400
MainShoppingCount == 400
MainReminderCount == 300
MainCalendarCount == 300
MainNoteCount == 500
MainQuoteCount == 300
MainAmbiguousCount == 100

Labels == {"BUDGET", "SHOPPING", "REMINDER", "CALENDAR", "NOTE", "QUOTE"}

\* train_classifier.py: LABEL_MAP
LABEL_MAP == [l \in Labels |->
               CASE l = "BUDGET" -> 0 [] l = "SHOPPING" -> 1 [] l = "REMINDER" -> 2
                 [] l = "CALENDAR" -> 3 [] l = "NOTE" -> 4 [] l = "QUOTE" -> 5]

-----------------------------------------------------------------------------
(* The tables of the generators, character by character *)

\* add_typos: typo_patterns (lines 24-42)
typo_patterns ==
  <<
    <<<<"t", "h", "e">>, <<"t", "e", "h">>>>,
    <<<<"a", "n", "d">>, <<"a", "d", "n">>>>,
    <<<<"f", "o", "r">>, <<"f", "r", "o">>>>,
    <<<<"y", "o", "u">>, <<"y", "u", "o">>>>,
    <<<<"t", "h", "a", "t">>, <<"t", "a", "h", "t">>>>,
    <<<<"t", "h", "i", "s">>, <<"t", "i", "h", "s">>>>,
    <<<<"f", "r", "o", "m">>, <<"f", "o", "r", "m">>>>,
    <<<<"h", "a", "v", "e">>, <<"a", "h", "v", "e">>>>,
    <<<<"w", "i", "t", "h">>, <<"w", "i", "h", "t">>>>,
    <<<<"t", "o", "m", "o", "r", "r", "o", "w">>, <<"t", "o", "m", "m", "o", "r", "o", "w">>>>,
    <<<<"d", "e", "f", "i", "n", "i", "t", "e", "l", "y">>, <<"d", "e", "f", "i", "n", "a", "t", "e", "l", "y">>>>,
    <<<<"r", "e", "c", "e", "i", "v", "e">>, <<"r", "e", "c", "i", "e", "v", "e">>>>,
    <<<<"g", "o", "o", "d">>, <<"g", "o", "o", "o", "d">>>>,
    <<<<"r", "e", "a", "l", "l", "y">>, <<"r", "e", "a", "l", "l", "l", "y">>>>
  >>

\* generate_budget_examples: amounts (lines 53-53)
budget_amounts ==
  <<
    <<"5">>,
    <<"1", "2">>,
    <<"2", "3", ".", "5", "0">>,
    <<"4", "5">>,
    <<"6", "7", ".", "9", "9">>,
    <<"1", "0", "0">>,
    <<"2", "5", "0">>,
    <<"5", "0", "0">>,
    <<"1", "2", "5", "0">>,
    <<"2", "4", "0", "0">>
  >>

\* generate_budget_examples: currencies (lines 54-54)
budget_currencies ==
  <<
    <<"d", "o", "l", "l", "a", "r", "s">>,
    <<"b", "u", "c", "k", "s">>,
    <<"e", "u", "r", "o">>,
    <<"e", "u", "r", "o", "s">>,
    <<"e", "u", "r">>,
    <<"u", "s", "d">>,
    <<"l", "e", "v">>,
    <<"l", "e", "v", "a">>,
    <<"$">>,
    <<"U+00E2", "U+201A", "U+00AC">>
  >>

\* generate_budget_examples: expense_templates (lines 57-70)
expense_templates ==
  <<
    <<"s", "p", "e", "n", "t", " ", "{", "a", "m", "o", "u", "n", "t", "}", " ", "{", "c", "u", "r", "r", "e", "n", "c", "y", "}", " ", "o", "n", " ", "{", "i", "t", "e", "m", "}">>,
    <<"p", "a", "i", "d", " ", "{", "a", "m", "o", "u", "n", "t", "}", " ", "{", "c", "u", "r", "r", "e", "n", "c", "y", "}", " ", "f", "o", "r", " ", "{", "i", "t", "e", "m", "}">>,
    <<"{", "a", "m", "o", "u", "n", "t", "}", " ", "{", "c", "u", "r", "r", "e", "n", "c", "y", "}", " ", "a", "t", " ", "{", "p", "l", "a", "c", "e", "}">>,
    <<"b", "o", "u", "g", "h", "t", " ", "{", "i", "t", "e", "m", "}", " ", "f", "o", "r", " ", "{", "a", "m", "o", "u", "n", "t", "}">>,
    <<"I", " ", "t", "h", "i", "n", "k", " ", "i", "t", " ", "w", "a", "s", " ", "l", "i", "k", "e", " ", "{", "a", "m", "o", "u", "n", "t", "}", " ", "m", "a", "y", "b", "e", " ", "{", "a", "m", "o", "u", "n", "t", "2", "}", " ", "{", "c", "u", "r", "r", "e", "n", "c", "y", "}">>,
    <<"u", "m", "m", " ", "s", "p", "e", "n", "t", " ", "{", "a", "m", "o", "u", "n", "t", "}", " ", "o", "n", " ", "{", "i", "t", "e", "m", "}">>,
    <<"{", "i", "t", "e", "m", "}", " ", "c", "o", "s", "t", " ", "m", "e", " ", "{", "a", "m", "o", "u", "n", "t", "}", " ", "{", "c", "u", "r", "r", "e", "n", "c", "y", "}">>,
    <<"p", "a", "i", "d", " ", "a", "b", "o", "u", "t", " ", "{", "a", "m", "o", "u", "n", "t", "}", " ", "f", "o", "r", " ", "{", "i", "t", "e", "m", "}", " ", "y", "e", "s", "t", "e", "r", "d", "a", "y">>,
    <<"{", "a", "m", "o", "u", "n", "t", "}", " ", "{", "c", "u", "r", "r", "e", "n", "c", "y", "}", " ", "{", "i", "t", "e", "m", "}">>,
    <<"s", "p", "e", "n", "t", " ", "s", "o", "m", "e", "w", "h", "e", "r", "e", " ", "a", "r", "o", "u", "n", "d", " ", "{", "a", "m", "o", "u", "n", "t", "}", " ", "{", "c", "u", "r", "r", "e", "n", "c", "y", "}">>,
    <<"I", " ", "p", "a", "i", "d", " ", "{", "a", "m", "o", "u", "n", "t", "}", " ", "{", "c", "u", "r", "r", "e", "n", "c", "y", "}", " ", "{", "i", "t", "e", "m", "}">>,
    <<"{", "i", "t", "e", "m", "}", " ", "{", "a", "m", "o", "u", "n", "t", "}", " ", "{", "c", "u", "r", "r", "e", "n", "c", "y", "}", " ", "t", "o", "d", "a", "y">>
  >>

\* generate_budget_examples: income_templates (lines 73-84)
income_templates ==
  <<
    <<"g", "o", "t", " ", "p", "a", "i", "d", " ", "{", "a", "m", "o", "u", "n", "t", "}", " ", "{", "c", "u", "r", "r", "e", "n", "c", "y", "}">>,
    <<"e", "a", "r", "n", "e", "d", " ", "{", "a", "m", "o", "u", "n", "t", "}", " ", "f", "r", "o", "m", " ", "{", "s", "o", "u", "r", "c", "e", "}">>,
    <<"i", "n", "c", "o", "m", "e", ":", " ", "{", "a", "m", "o", "u", "n", "t", "}", " ", "{", "c", "u", "r", "r", "e", "n", "c", "y", "}">>,
    <<"m", "a", "d", "e", " ", "{", "a", "m", "o", "u", "n", "t", "}", " ", "{", "c", "u", "r", "r", "e", "n", "c", "y", "}", " ", "s", "e", "l", "l", "i", "n", "g", " ", "{", "i", "t", "e", "m", "}">>,
    <<"r", "e", "c", "e", "i", "v", "e", "d", " ", "{", "a", "m", "o", "u", "n", "t", "}", " ", "{", "c", "u", "r", "r", "e", "n", "c", "y", "}", " ", "r", "e", "f", "u", "n", "d">>,
    <<"s", "a", "l", "a", "r", "y", " ", "{", "a", "m", "o", "u", "n", "t", "}", " ", "{", "c", "u", "r", "r", "e", "n", "c", "y", "}", " ", "d", "e", "p", "o", "s", "i", "t", "e", "d">>,
    <<"m", "y", " ", "p", "a", "y", "c", "h", "e", "c", "k", " ", "w", "a", "s", " ", "{", "a", "m", "o", "u", "n", "t", "}">>,
    <<"b", "o", "n", "u", "s", " ", "p", "a", "y", "m", "e", "n", "t", " ", "{", "a", "m", "o", "u", "n", "t", "}", " ", "{", "c", "u", "r", "r", "e", "n", "c", "y", "}">>,
    <<"{", "a", "m", "o", "u", "n", "t", "}", " ", "{", "c", "u", "r", "r", "e", "n", "c", "y", "}", " ", "c", "a", "s", "h", "b", "a", "c", "k">>,
    <<"s", "o", "l", "d", " ", "{", "i", "t", "e", "m", "}", " ", "f", "o", "r", " ", "{", "a", "m", "o", "u", "n", "t", "}">>
  >>

\* generate_budget_examples: items (lines 86-91)
budget_items ==
  <<
    <<"c", "o", "f", "f", "e", "e">>,
    <<"g", "r", "o", "c", "e", "r", "i", "e", "s">>,
    <<"l", "u", "n", "c", "h">>,
    <<"d", "i", "n", "n", "e", "r">>,
    <<"g", "a", "s">>,
    <<"p", "a", "r", "k", "i", "n", "g">>,
    <<"u", "b", "e", "r">>,
    <<"r", "e", "n", "t">>,
    <<"e", "l", "e", "c", "t", "r", "i", "c", "i", "t", "y", " ", "b", "i", "l", "l">>,
    <<"i", "n", "t", "e", "r", "n", "e", "t">>,
    <<"g", "y", "m", " ", "m", "e", "m", "b", "e", "r", "s", "h", "i", "p">>,
    <<"h", "a", "i", "r", "c", "u", "t">>,
    <<"c", "l", "o", "t", "h", "e", "s">>,
    <<"s", "h", "o", "e", "s">>,
    <<"p", "h", "o", "n", "e", " ", "c", "h", "a", "r", "g", "e", "r">>,
    <<"s", "n", "a", "c", "k", "s">>,
    <<"t", "a", "x", "i">>,
    <<"m", "o", "v", "i", "e", " ", "t", "i", "c", "k", "e", "t", "s">>,
    <<"m", "e", "d", "i", "c", "i", "n", "e">>,
    <<"v", "i", "t", "a", "m", "i", "n", "s">>,
    <<"b", "o", "o", "k", "s">>,
    <<"c", "o", "f", "f", "e", "e", " ", "b", "e", "a", "n", "s">>,
    <<"b", "r", "e", "a", "d">>,
    <<"m", "i", "l", "k">>
  >>

\* generate_budget_examples: places (lines 93-97)
budget_places ==
  <<
    <<"S", "t", "a", "r", "b", "u", "c", "k", "s">>,
    <<"W", "h", "o", "l", "e", " ", "F", "o", "o", "d", "s">>,
    <<"T", "a", "r", "g", "e", "t">>,
    <<"D", "M">>,
    <<"L", "i", "d", "l">>,
    <<"t", "h", "e", " ", "s", "t", "o", "r", "e">>,
    <<"t", "h", "e", " ", "r", "e", "s", "t", "a", "u", "r", "a", "n", "t">>,
    <<"t", "h", "e", " ", "g", "a", "s", " ", "s", "t", "a", "t", "i", "o", "n">>,
    <<"A", "m", "a", "z", "o", "n">>,
    <<"t", "h", "e", " ", "p", "h", "a", "r", "m", "a", "c", "y">>,
    <<"t", "h", "e", " ", "m", "a", "r", "k", "e", "t">>,
    <<"t", "h", "e", " ", "s", "h", "o", "p">>,
    <<"o", "n", "l", "i", "n", "e">>,
    <<"t", "h", "e", " ", "m", "a", "l", "l">>
  >>

\* generate_budget_examples: sources (lines 99-103)
budget_sources ==
  <<
    <<"f", "r", "e", "e", "l", "a", "n", "c", "e", " ", "w", "o", "r", "k">>,
    <<"s", "i", "d", "e", " ", "j", "o", "b">>,
    <<"t", "h", "e", " ", "c", "l", "i", "e", "n", "t">>,
    <<"t", "u", "t", "o", "r", "i", "n", "g">>,
    <<"s", "e", "l", "l", "i", "n", "g", " ", "s", "t", "u", "f", "f", " ", "o", "n", "l", "i", "n", "e">>,
    <<"w", "e", "e", "k", "e", "n", "d", " ", "g", "i", "g">>,
    <<"m", "y", " ", "s", "i", "d", "e", " ", "h", "u", "s", "t", "l", "e">>,
    <<"c", "o", "n", "s", "u", "l", "t", "i", "n", "g", " ", "w", "o", "r", "k">>,
    <<"t", "h", "e", " ", "p", "r", "o", "j", "e", "c", "t">>
  >>

\* generate_shopping_examples: templates (lines 137-155)
shopping_templates ==
  <<
    <<"b", "u", "y", " ", "{", "i", "t", "e", "m", "}">>,
    <<"g", "e", "t", " ", "{", "i", "t", "e", "m", "}">>,
    <<"n", "e", "e", "d", " ", "{", "i", "t", "e", "m", "}">>,
    <<"p", "i", "c", "k", " ", "u", "p", " ", "{", "i", "t", "e", "m", "}">>,
    <<"g", "r", "a", "b", " ", "{", "i", "t", "e", "m", "}">>,
    <<"I", " ", "n", "e", "e", "d", " ", "t", "o", " ", "b", "u", "y", " ", "{", "i", "t", "e", "m", "}">>,
    <<"g", "e", "t", " ", "m", "e", " ", "{", "i", "t", "e", "m", "}">>,
    <<"s", "h", "o", "p", "p", "i", "n", "g", ":", " ", "{", "i", "t", "e", "m", "}">>,
    <<"{", "i", "t", "e", "m", "}", " ", "f", "r", "o", "m", " ", "t", "h", "e", " ", "s", "t", "o", "r", "e">>,
    <<"n", "e", "e", "d", " ", "t", "o", " ", "g", "e", "t", " ", "{", "i", "t", "e", "m", "}">>,
    <<"b", "u", "y", " ", "{", "i", "t", "e", "m", "}", " ", "a", "n", "d", " ", "{", "i", "t", "e", "m", "2", "}">>,
    <<"{", "i", "t", "e", "m", "}", " ", "{", "i", "t", "e", "m", "2", "}", " ", "a", "n", "d", " ", "{", "i", "t", "e", "m", "3", "}">>,
    <<"g", "e", "t", " ", "{", "i", "t", "e", "m", "}", " ", "t", "h", "e", " ", "{", "v", "a", "r", "i", "a", "n", "t", "}", " ", "k", "i", "n", "d">>,
    <<"p", "i", "c", "k", " ", "u", "p", " ", "{", "i", "t", "e", "m", "}", " ", "a", "n", "d", " ", "m", "a", "y", "b", "e", " ", "{", "i", "t", "e", "m", "2", "}">>,
    <<"I", " ", "n", "e", "e", "d", " ", "{", "i", "t", "e", "m", "}", " ", "l", "a", "t", "e", "r">>,
    <<"g", "r", "a", "b", " ", "s", "o", "m", "e", " ", "{", "i", "t", "e", "m", "}">>,
    <<"b", "u", "y", " ", "a", " ", "{", "i", "t", "e", "m", "}">>
  >>

\* generate_shopping_examples: items (lines 157-166)
shopping_items ==
  <<
    <<"m", "i", "l", "k">>,
    <<"e", "g", "g", "s">>,
    <<"b", "r", "e", "a", "d">>,
    <<"c", "h", "e", "e", "s", "e">>,
    <<"b", "u", "t", "t", "e", "r">>,
    <<"c", "o", "f", "f", "e", "e">>,
    <<"t", "e", "a">>,
    <<"b", "a", "n", "a", "n", "a", "s">>,
    <<"a", "p", "p", "l", "e", "s">>,
    <<"o", "r", "a", "n", "g", "e", "s">>,
    <<"t", "o", "m", "a", "t", "o", "e", "s">>,
    <<"l", "e", "t", "t", "u", "c", "e">>,
    <<"s", "p", "i", "n", "a", "c", "h">>,
    <<"c", "h", "i", "c", "k", "e", "n">>,
    <<"b", "e", "e", "f">>,
    <<"f", "i", "s", "h">>,
    <<"p", "a", "s", "t", "a">>,
    <<"r", "i", "c", "e">>,
    <<"f", "l", "o", "u", "r">>,
    <<"s", "u", "g", "a", "r">>,
    <<"t", "o", "i", "l", "e", "t", " ", "p", "a", "p", "e", "r">>,
    <<"p", "a", "p", "e", "r", " ", "t", "o", "w", "e", "l", "s">>,
    <<"l", "a", "u", "n", "d", "r", "y", " ", "d", "e", "t", "e", "r", "g", "e", "n", "t">>,
    <<"d", "i", "s", "h", " ", "s", "o", "a", "p">>,
    <<"s", "h", "a", "m", "p", "o", "o">>,
    <<"t", "o", "o", "t", "h", "p", "a", "s", "t", "e">>,
    <<"s", "o", "a", "p">>,
    <<"t", "i", "s", "s", "u", "e", "s">>,
    <<"b", "a", "t", "t", "e", "r", "i", "e", "s">>,
    <<"l", "i", "g", "h", "t", "b", "u", "l", "b", "s">>,
    <<"c", "a", "t", " ", "f", "o", "o", "d">>,
    <<"d", "o", "g", " ", "f", "o", "o", "d">>,
    <<"d", "i", "a", "p", "e", "r", "s">>,
    <<"b", "a", "b", "y", " ", "w", "i", "p", "e", "s">>,
    <<"f", "o", "r", "m", "u", "l", "a">>,
    <<"y", "o", "g", "u", "r", "t">>,
    <<"c", "e", "r", "e", "a", "l">>,
    <<"o", "a", "t", "s">>,
    <<"n", "u", "t", "s">>,
    <<"c", "h", "o", "c", "o", "l", "a", "t", "e">>,
    <<"s", "n", "a", "c", "k", "s">>,
    <<"o", "l", "i", "v", "e", " ", "o", "i", "l">>,
    <<"s", "a", "l", "t">>,
    <<"p", "e", "p", "p", "e", "r">>,
    <<"g", "a", "r", "l", "i", "c">>,
    <<"o", "n", "i", "o", "n", "s">>,
    <<"c", "a", "r", "r", "o", "t", "s">>
  >>

\* generate_shopping_examples: variants (lines 168-171)
shopping_variants ==
  <<
    <<"o", "r", "g", "a", "n", "i", "c">>,
    <<"u", "n", "s", "w", "e", "e", "t", "e", "n", "e", "d">>,
    <<"l", "o", "w", " ", "f", "a", "t">>,
    <<"w", "h", "o", "l", "e", " ", "w", "h", "e", "a", "t">>,
    <<"g", "l", "u", "t", "e", "n", " ", "f", "r", "e", "e">>,
    <<"f", "r", "e", "s", "h">>,
    <<"f", "r", "o", "z", "e", "n">>,
    <<"c", "a", "n", "n", "e", "d">>,
    <<"l", "a", "r", "g", "e">>,
    <<"s", "m", "a", "l", "l">>,
    <<"c", "h", "e", "a", "p">>
  >>

\* generate_reminder_examples: templates (lines 191-206)
reminder_templates ==
  <<
    <<"r", "e", "m", "i", "n", "d", " ", "m", "e", " ", "t", "o", " ", "{", "a", "c", "t", "i", "o", "n", "}">>,
    <<"c", "a", "l", "l", " ", "{", "p", "e", "r", "s", "o", "n", "}", " ", "{", "w", "h", "e", "n", "}">>,
    <<"d", "o", "n", "'", "t", " ", "f", "o", "r", "g", "e", "t", " ", "t", "o", " ", "{", "a", "c", "t", "i", "o", "n", "}">>,
    <<"r", "e", "m", "i", "n", "d", " ", "m", "e", " ", "{", "a", "c", "t", "i", "o", "n", "}">>,
    <<"{", "a", "c", "t", "i", "o", "n", "}", " ", "{", "w", "h", "e", "n", "}">>,
    <<"s", "e", "t", " ", "a", " ", "r", "e", "m", "i", "n", "d", "e", "r", " ", "t", "o", " ", "{", "a", "c", "t", "i", "o", "n", "}">>,
    <<"r", "e", "m", "e", "m", "b", "e", "r", " ", "t", "o", " ", "{", "a", "c", "t", "i", "o", "n", "}">>,
    <<"I", " ", "n", "e", "e", "d", " ", "t", "o", " ", "{", "a", "c", "t", "i", "o", "n", "}", " ", "{", "w", "h", "e", "n", "}">>,
    <<"r", "e", "m", "i", "n", "d", " ", "m", "e", " ", "t", "o", " ", "{", "a", "c", "t", "i", "o", "n", "}", " ", "a", "t", " ", "{", "t", "i", "m", "e", "}">>,
    <<"d", "o", "n", "'", "t", " ", "f", "o", "r", "g", "e", "t", " ", "{", "a", "c", "t", "i", "o", "n", "}">>,
    <<"{", "a", "c", "t", "i", "o", "n", "}", " ", "b", "e", "f", "o", "r", "e", " ", "{", "d", "e", "a", "d", "l", "i", "n", "e", "}">>,
    <<"r", "e", "m", "i", "n", "d", "e", "r", ":", " ", "{", "a", "c", "t", "i", "o", "n", "}">>,
    <<"n", "e", "e", "d", " ", "t", "o", " ", "r", "e", "m", "e", "m", "b", "e", "r", " ", "t", "o", " ", "{", "a", "c", "t", "i", "o", "n", "}">>,
    <<"m", "a", "k", "e", " ", "s", "u", "r", "e", " ", "t", "o", " ", "{", "a", "c", "t", "i", "o", "n", "}">>
  >>

\* generate_reminder_examples: actions (lines 208-216)
reminder_actions ==
  <<
    <<"p", "a", "y", " ", "t", "h", "e", " ", "b", "i", "l", "l">>,
    <<"c", "a", "l", "l", " ", "t", "h", "e", " ", "d", "e", "n", "t", "i", "s", "t">>,
    <<"p", "i", "c", "k", " ", "u", "p", " ", "t", "h", "e", " ", "k", "i", "d", "s">>,
    <<"t", "a", "k", "e", " ", "o", "u", "t", " ", "t", "h", "e", " ", "t", "r", "a", "s", "h">>,
    <<"w", "a", "t", "e", "r", " ", "t", "h", "e", " ", "p", "l", "a", "n", "t", "s">>,
    <<"f", "e", "e", "d", " ", "t", "h", "e", " ", "c", "a", "t">>,
    <<"c", "h", "e", "c", "k", " ", "t", "h", "e", " ", "m", "a", "i", "l">>,
    <<"r", "e", "p", "l", "y", " ", "t", "o", " ", "t", "h", "a", "t", " ", "e", "m", "a", "i", "l">>,
    <<"s", "u", "b", "m", "i", "t", " ", "t", "h", "e", " ", "r", "e", "p", "o", "r", "t">>,
    <<"b", "a", "c", "k", "u", "p", " ", "m", "y", " ", "f", "i", "l", "e", "s">>,
    <<"r", "e", "n", "e", "w", " ", "t", "h", "e", " ", "s", "u", "b", "s", "c", "r", "i", "p", "t", "i", "o", "n">>,
    <<"c", "a", "n", "c", "e", "l", " ", "t", "h", "e", " ", "t", "r", "i", "a", "l">>,
    <<"p", "i", "c", "k", " ", "u", "p", " ", "d", "r", "y", " ", "c", "l", "e", "a", "n", "i", "n", "g">>,
    <<"t", "a", "k", "e", " ", "m", "e", "d", "i", "c", "a", "t", "i", "o", "n">>,
    <<"s", "t", "r", "e", "t", "c", "h">>,
    <<"p", "r", "a", "c", "t", "i", "c", "e", " ", "g", "u", "i", "t", "a", "r">>,
    <<"g", "o", " ", "t", "o", " ", "t", "h", "e", " ", "g", "y", "m">>,
    <<"s", "e", "n", "d", " ", "t", "h", "e", " ", "i", "n", "v", "o", "i", "c", "e">>,
    <<"b", "o", "o", "k", " ", "t", "h", "e", " ", "a", "p", "p", "o", "i", "n", "t", "m", "e", "n", "t">>,
    <<"p", "a", "y", " ", "r", "e", "n", "t">>,
    <<"c", "h", "a", "n", "g", "e", " ", "t", "h", "e", " ", "p", "a", "s", "s", "w", "o", "r", "d">>
  >>

\* generate_reminder_examples: people (lines 218-218)
reminder_people ==
  <<
    <<"m", "o", "m">>,
    <<"j", "o", "h", "n">>,
    <<"s", "a", "r", "a", "h">>,
    <<"t", "h", "e", " ", "d", "e", "n", "t", "i", "s", "t">>,
    <<"t", "h", "e", " ", "p", "l", "u", "m", "b", "e", "r">>,
    <<"t", "h", "e", " ", "v", "e", "t">>,
    <<"m", "y", " ", "b", "o", "s", "s">>,
    <<"a", "n", "n", "a">>,
    <<"m", "a", "r", "k">>
  >>

\* generate_reminder_examples: when_options (lines 220-224)
reminder_when_options ==
  <<
    <<"t", "o", "m", "o", "r", "r", "o", "w">>,
    <<"l", "a", "t", "e", "r">>,
    <<"t", "o", "n", "i", "g", "h", "t">>,
    <<"n", "e", "x", "t", " ", "w", "e", "e", "k">>,
    <<"o", "n", " ", "f", "r", "i", "d", "a", "y">>,
    <<"t", "h", "i", "s", " ", "w", "e", "e", "k", "e", "n", "d">>,
    <<"i", "n", " ", "t", "h", "e", " ", "m", "o", "r", "n", "i", "n", "g">>,
    <<"a", "f", "t", "e", "r", " ", "w", "o", "r", "k">>,
    <<"b", "e", "f", "o", "r", "e", " ", "b", "e", "d">>,
    <<"n", "e", "x", "t", " ", "m", "o", "n", "d", "a", "y">>,
    <<"o", "n", " ", "t", "u", "e", "s", "d", "a", "y">>,
    <<"w", "e", "d", "n", "e", "s", "d", "a", "y">>,
    <<"a", "t", " ", "3", "p", "m">>
  >>

\* generate_reminder_examples: times (lines 226-226)
reminder_times ==
  <<
    <<"5", "p", "m">>,
    <<"8", "a", "m">>,
    <<"1", "0", ":", "3", "0">>,
    <<"3", "p", "m">>,
    <<"6", ":", "0", "0">>,
    <<"n", "o", "o", "n">>,
    <<"9", "a", "m">>
  >>

\* generate_reminder_examples: deadlines (lines 227-227)
reminder_deadlines ==
  <<
    <<"f", "r", "i", "d", "a", "y">>,
    <<"t", "h", "e", " ", "e", "n", "d", " ", "o", "f", " ", "m", "o", "n", "t", "h">>,
    <<"n", "e", "x", "t", " ", "w", "e", "e", "k">>,
    <<"t", "o", "m", "o", "r", "r", "o", "w">>,
    <<"5", "p", "m">>,
    <<"t", "h", "e", " ", "w", "e", "e", "k", "e", "n", "d">>
  >>

\* generate_calendar_examples: templates (lines 248-261)
calendar_templates ==
  <<
    <<"{", "e", "v", "e", "n", "t", "}", " ", "{", "w", "h", "e", "n", "}", " ", "a", "t", " ", "{", "t", "i", "m", "e", "}">>,
    <<"{", "e", "v", "e", "n", "t", "}", " ", "o", "n", " ", "{", "d", "a", "y", "}">>,
    <<"{", "e", "v", "e", "n", "t", "}", " ", "{", "w", "h", "e", "n", "}">>,
    <<"m", "e", "e", "t", "i", "n", "g", " ", "w", "i", "t", "h", " ", "{", "p", "e", "r", "s", "o", "n", "}", " ", "{", "w", "h", "e", "n", "}">>,
    <<"{", "e", "v", "e", "n", "t", "}", " ", "e", "v", "e", "r", "y", " ", "{", "f", "r", "e", "q", "u", "e", "n", "c", "y", "}">>,
    <<"a", "p", "p", "o", "i", "n", "t", "m", "e", "n", "t", " ", "{", "w", "h", "e", "n", "}", " ", "a", "t", " ", "{", "t", "i", "m", "e", "}">>,
    <<"{", "e", "v", "e", "n", "t", "}", " ", "{", "d", "a", "t", "e", "}", " ", "a", "t", " ", "{", "t", "i", "m", "e", "}">>,
    <<"s", "c", "h", "e", "d", "u", "l", "e", " ", "{", "e", "v", "e", "n", "t", "}", " ", "{", "w", "h", "e", "n", "}">>,
    <<"{", "e", "v", "e", "n", "t", "}", " ", "{", "w", "h", "e", "n", "}", " ", "{", "t", "i", "m", "e", "}">>,
    <<"r", "e", "c", "u", "r", "r", "i", "n", "g", ":", " ", "{", "e", "v", "e", "n", "t", "}", " ", "{", "f", "r", "e", "q", "u", "e", "n", "c", "y", "}">>,
    <<"{", "e", "v", "e", "n", "t", "}", " ", "d", "e", "p", "a", "r", "t", "s", " ", "{", "w", "h", "e", "n", "}">>,
    <<"{", "e", "v", "e", "n", "t", "}", " ", "s", "t", "a", "r", "t", "s", " ", "{", "w", "h", "e", "n", "}">>
  >>

\* generate_calendar_examples: events (lines 263-270)
calendar_events ==
  <<
    <<"d", "e", "n", "t", "i", "s", "t", " ", "a", "p", "p", "o", "i", "n", "t", "m", "e", "n", "t">>,
    <<"d", "o", "c", "t", "o", "r", " ", "a", "p", "p", "o", "i", "n", "t", "m", "e", "n", "t">>,
    <<"t", "e", "a", "m", " ", "m", "e", "e", "t", "i", "n", "g">>,
    <<"s", "t", "a", "n", "d", "u", "p">>,
    <<"d", "i", "n", "n", "e", "r">>,
    <<"l", "u", "n", "c", "h">>,
    <<"c", "o", "f", "f", "e", "e">>,
    <<"y", "o", "g", "a", " ", "c", "l", "a", "s", "s">>,
    <<"g", "y", "m", " ", "s", "e", "s", "s", "i", "o", "n">>,
    <<"c", "o", "n", "f", "e", "r", "e", "n", "c", "e">>,
    <<"w", "e", "b", "i", "n", "a", "r">>,
    <<"i", "n", "t", "e", "r", "v", "i", "e", "w">>,
    <<"p", "r", "e", "s", "e", "n", "t", "a", "t", "i", "o", "n">>,
    <<"f", "l", "i", "g", "h", "t">>,
    <<"h", "a", "i", "r", "c", "u", "t">>,
    <<"p", "a", "r", "e", "n", "t", " ", "t", "e", "a", "c", "h", "e", "r", " ", "m", "e", "e", "t", "i", "n", "g">>,
    <<"b", "o", "o", "k", " ", "c", "l", "u", "b">>,
    <<"p", "r", "o", "j", "e", "c", "t", " ", "k", "i", "c", "k", "o", "f", "f">>,
    <<"t", "e", "a", "m", " ", "s", "y", "n", "c">>,
    <<"r", "e", "v", "i", "e", "w", " ", "m", "e", "e", "t", "i", "n", "g">>,
    <<"c", "a", "l", "l">>,
    <<"p", "l", "a", "y", "d", "a", "t", "e">>,
    <<"p", "a", "r", "t", "y">>,
    <<"w", "e", "d", "d", "i", "n", "g">>,
    <<"b", "i", "r", "t", "h", "d", "a", "y", " ", "d", "i", "n", "n", "e", "r">>
  >>

\* generate_calendar_examples: people (lines 272-272)
calendar_people ==
  <<
    <<"s", "a", "r", "a", "h">>,
    <<"t", "h", "e", " ", "c", "l", "i", "e", "n", "t">>,
    <<"j", "o", "h", "n">>,
    <<"a", "n", "n", "a">>,
    <<"t", "h", "e", " ", "t", "e", "a", "m">>,
    <<"m", "y", " ", "b", "o", "s", "s">>,
    <<"m", "a", "r", "k">>,
    <<"l", "i", "s", "a">>
  >>

\* generate_calendar_examples: when_options (lines 274-278)
calendar_when_options ==
  <<
    <<"t", "o", "m", "o", "r", "r", "o", "w">>,
    <<"n", "e", "x", "t", " ", "m", "o", "n", "d", "a", "y">>,
    <<"f", "r", "i", "d", "a", "y">>,
    <<"n", "e", "x", "t", " ", "w", "e", "e", "k">>,
    <<"o", "n", " ", "t", "u", "e", "s", "d", "a", "y">>,
    <<"w", "e", "d", "n", "e", "s", "d", "a", "y", " ", "m", "o", "r", "n", "i", "n", "g">>,
    <<"t", "h", "u", "r", "s", "d", "a", "y", " ", "a", "f", "t", "e", "r", "n", "o", "o", "n">>,
    <<"t", "h", "i", "s", " ", "s", "a", "t", "u", "r", "d", "a", "y">>,
    <<"n", "e", "x", "t", " ", "m", "o", "n", "t", "h">>,
    <<"i", "n", " ", "j", "u", "n", "e">>,
    <<"o", "n", " ", "t", "h", "e", " ", "5", "t", "h">>
  >>

\* generate_calendar_examples: days (lines 280-280)
calendar_days ==
  <<
    <<"m", "o", "n", "d", "a", "y">>,
    <<"t", "u", "e", "s", "d", "a", "y">>,
    <<"w", "e", "d", "n", "e", "s", "d", "a", "y">>,
    <<"t", "h", "u", "r", "s", "d", "a", "y">>,
    <<"f", "r", "i", "d", "a", "y">>,
    <<"s", "a", "t", "u", "r", "d", "a", "y">>,
    <<"s", "u", "n", "d", "a", "y">>
  >>

\* generate_calendar_examples: times (lines 281-281)
calendar_times ==
  <<
    <<"9", "a", "m">>,
    <<"2", ":", "3", "0", "p", "m">>,
    <<"1", "0", ":", "3", "0">>,
    <<"6", "p", "m">>,
    <<"8", ":", "0", "0">>,
    <<"1", "1", "a", "m">>,
    <<"3", "p", "m">>,
    <<"7", ":", "3", "0", "p", "m">>,
    <<"1", "4", ":", "0", "0">>,
    <<"1", "6", ":", "0", "0">>
  >>

\* generate_calendar_examples: dates (lines 282-282)
calendar_dates ==
  <<
    <<"m", "a", "r", "c", "h", " ", "2", "1">>,
    <<"j", "u", "l", "y", " ", "3">>,
    <<"j", "u", "n", "e", " ", "1", "2">>,
    <<"o", "c", "t", " ", "1", "0">>,
    <<"1", "2", "/", "1", "1">>,
    <<"a", "u", "g", "u", "s", "t", " ", "5">>,
    <<"1", "s", "t", " ", "a", "u", "g", "u", "s", "t">>
  >>

\* generate_calendar_examples: frequencies (lines 283-283)
calendar_frequencies ==
  <<
    <<"m", "o", "n", "d", "a", "y">>,
    <<"w", "e", "e", "k", "d", "a", "y">>,
    <<"w", "e", "e", "k">>,
    <<"m", "o", "n", "t", "h">>,
    <<"t", "u", "e", "s", "d", "a", "y", " ", "a", "n", "d", " ", "t", "h", "u", "r", "s", "d", "a", "y">>,
    <<"s", "a", "t", "u", "r", "d", "a", "y">>
  >>

\* generate_note_examples: templates (lines 306-327)
note_templates ==
  <<
    <<"I", "'", "m", " ", "t", "h", "i", "n", "k", "i", "n", "g", " ", "a", "b", "o", "u", "t", " ", "{", "t", "o", "p", "i", "c", "}">>,
    <<"m", "a", "y", "b", "e", " ", "{", "i", "d", "e", "a", "}">>,
    <<"n", "o", "t", "e", ":", " ", "{", "o", "b", "s", "e", "r", "v", "a", "t", "i", "o", "n", "}">>,
    <<"i", "d", "e", "a", ":", " ", "{", "i", "d", "e", "a", "}">>,
    <<"r", "a", "n", "d", "o", "m", " ", "t", "h", "o", "u", "g", "h", "t", ":", " ", "{", "t", "h", "o", "u", "g", "h", "t", "}">>,
    <<"n", "o", "t", "e", "d", " ", "t", "h", "a", "t", " ", "{", "o", "b", "s", "e", "r", "v", "a", "t", "i", "o", "n", "}">>,
    <<"b", "r", "a", "i", "n", "s", "t", "o", "r", "m", ":", " ", "{", "i", "d", "e", "a", "}">>,
    <<"o", "b", "s", "e", "r", "v", "a", "t", "i", "o", "n", ":", " ", "{", "o", "b", "s", "e", "r", "v", "a", "t", "i", "o", "n", "}">>,
    <<"I", " ", "s", "h", "o", "u", "l", "d", " ", "{", "g", "o", "a", "l", "}">>,
    <<"t", "h", "i", "n", "k", "i", "n", "g", " ", "{", "t", "o", "p", "i", "c", "}">>,
    <<"m", "e", "n", "t", "a", "l", " ", "n", "o", "t", "e", ":", " ", "{", "t", "h", "o", "u", "g", "h", "t", "}">>,
    <<"j", "o", "t", ":", " ", "{", "o", "b", "s", "e", "r", "v", "a", "t", "i", "o", "n", "}">>,
    <<"f", "e", "e", "l", "i", "n", "g", " ", "{", "e", "m", "o", "t", "i", "o", "n", "}", " ", "a", "b", "o", "u", "t", " ", "{", "t", "o", "p", "i", "c", "}">>,
    <<"w", "i", "s", "h", " ", "l", "i", "s", "t", ":", " ", "{", "d", "e", "s", "i", "r", "e", "}">>,
    <<"p", "l", "a", "n", "n", "i", "n", "g", " ", "{", "p", "l", "a", "n", "}">>,
    <<"r", "e", "m", "e", "m", "b", "e", "r", "e", "d", " ", "{", "t", "h", "o", "u", "g", "h", "t", "}">>,
    <<"{", "o", "b", "s", "e", "r", "v", "a", "t", "i", "o", "n", "}", " ", "-", " ", "w", "o", "r", "t", "h", " ", "n", "o", "t", "i", "n", "g">>,
    <<"I", " ", "n", "o", "t", "i", "c", "e", "d", " ", "{", "o", "b", "s", "e", "r", "v", "a", "t", "i", "o", "n", "}">>,
    <<"h", "a", "d", " ", "a", " ", "t", "h", "o", "u", "g", "h", "t", " ", "a", "b", "o", "u", "t", " ", "{", "t", "o", "p", "i", "c", "}">>,
    <<"c", "o", "n", "s", "i", "d", "e", "r", "i", "n", "g", " ", "{", "i", "d", "e", "a", "}">>
  >>

\* generate_note_examples: topics (lines 329-334)
note_topics ==
  <<
    <<"l", "e", "a", "r", "n", "i", "n", "g", " ", "t", "o", " ", "c", "o", "o", "k">>,
    <<"s", "w", "i", "t", "c", "h", "i", "n", "g", " ", "j", "o", "b", "s">>,
    <<"g", "e", "t", "t", "i", "n", "g", " ", "a", " ", "n", "e", "w", " ", "c", "a", "r">>,
    <<"r", "e", "d", "e", "c", "o", "r", "a", "t", "i", "n", "g", " ", "t", "h", "e", " ", "r", "o", "o", "m">>,
    <<"s", "t", "a", "r", "t", "i", "n", "g", " ", "a", " ", "b", "l", "o", "g">>,
    <<"l", "e", "a", "r", "n", "i", "n", "g", " ", "g", "u", "i", "t", "a", "r">>,
    <<"i", "m", "p", "r", "o", "v", "i", "n", "g", " ", "m", "y", " ", "h", "e", "a", "l", "t", "h">>,
    <<"r", "e", "a", "d", "i", "n", "g", " ", "m", "o", "r", "e">>,
    <<"t", "r", "a", "v", "e", "l", "i", "n", "g">>,
    <<"t", "h", "e", " ", "p", "r", "o", "j", "e", "c", "t", " ", "s", "t", "r", "a", "t", "e", "g", "y">>,
    <<"b", "e", "t", "t", "e", "r", " ", "f", "i", "l", "e", " ", "o", "r", "g", "a", "n", "i", "z", "a", "t", "i", "o", "n">>,
    <<"p", "r", "o", "d", "u", "c", "t", "i", "v", "i", "t", "y">>
  >>

\* generate_note_examples: ideas (lines 336-341)
note_ideas ==
  <<
    <<"s", "t", "a", "r", "t", " ", "a", " ", "p", "o", "d", "c", "a", "s", "t">>,
    <<"t", "r", "y", " ", "m", "e", "a", "l", " ", "p", "r", "e", "p", "p", "i", "n", "g">>,
    <<"t", "a", "k", "e", " ", "a", " ", "c", "o", "u", "r", "s", "e">>,
    <<"g", "e", "t", " ", "a", " ", "s", "t", "a", "n", "d", "i", "n", "g", " ", "d", "e", "s", "k">>,
    <<"a", "u", "t", "o", "m", "a", "t", "e", " ", "t", "h", "e", " ", "r", "e", "p", "o", "r", "t", "s">>,
    <<"w", "e", "e", "k", "e", "n", "d", " ", "h", "a", "c", "k", "a", "t", "h", "o", "n">>,
    <<"s", "o", "l", "a", "r", " ", "p", "a", "n", "e", "l", "s", " ", "m", "i", "g", "h", "t", " ", "b", "e", " ", "g", "o", "o", "d">>,
    <<"s", "w", "i", "t", "c", "h", " ", "t", "o", " ", "a", " ", "b", "e", "t", "t", "e", "r", " ", "a", "p", "p">>,
    <<"o", "r", "g", "a", "n", "i", "z", "e", " ", "a", " ", "t", "e", "a", "m", " ", "e", "v", "e", "n", "t">>,
    <<"c", "r", "e", "a", "t", "e", " ", "a", " ", "s", "i", "d", "e", " ", "p", "r", "o", "j", "e", "c", "t">>
  >>

\* generate_note_examples: observations (lines 343-349)
note_observations ==
  <<
    <<"t", "h", "e", " ", "c", "a", "r", " ", "i", "s", " ", "m", "a", "k", "i", "n", "g", " ", "n", "o", "i", "s", "e">>,
    <<"t", "r", "a", "f", "f", "i", "c", " ", "i", "s", " ", "w", "o", "r", "s", "e", " ", "o", "n", " ", "t", "h", "u", "r", "s", "d", "a", "y", "s">>,
    <<"m", "y", " ", "f", "o", "c", "u", "s", " ", "i", "s", " ", "b", "e", "t", "t", "e", "r", " ", "m", "o", "r", "n", "i", "n", "g", "s">>,
    <<"t", "h", "e", " ", "f", "r", "i", "d", "g", "e", " ", "l", "i", "g", "h", "t", " ", "i", "s", " ", "f", "l", "i", "c", "k", "e", "r", "i", "n", "g">>,
    <<"m", "e", "e", "t", "i", "n", "g", "s", " ", "r", "u", "n", " ", "l", "o", "n", "g", " ", "w", "i", "t", "h", "o", "u", "t", " ", "a", "g", "e", "n", "d", "a">>,
    <<"t", "h", "e", " ", "p", "l", "a", "n", "t", " ", "n", "e", "e", "d", "s", " ", "l", "e", "s", "s", " ", "w", "a", "t", "e", "r">>,
    <<"t", "h", "e", " ", "n", "e", "i", "g", "h", "b", "o", "r", " ", "i", "s", " ", "l", "o", "u", "d">>,
    <<"b", "a", "t", "t", "e", "r", "y", " ", "o", "n", " ", "l", "a", "p", "t", "o", "p", " ", "i", "s", " ", "d", "y", "i", "n", "g">>,
    <<"c", "o", "f", "f", "e", "e", " ", "a", "t", " ", "m", "a", "i", "n", " ", "s", "t", "r", "e", "e", "t", " ", "i", "s", " ", "a", "m", "a", "z", "i", "n", "g">>,
    <<"n", "e", "e", "d", " ", "b", "e", "t", "t", "e", "r", " ", "c", "a", "b", "l", "e", " ", "m", "a", "n", "a", "g", "e", "m", "e", "n", "t">>
  >>

\* generate_note_examples: thoughts (lines 351-356)
note_thoughts ==
  <<
    <<"t", "r", "y", " ", "m", "e", "d", "i", "t", "a", "t", "i", "o", "n", " ", "f", "o", "r", " ", "1", "0", " ", "d", "a", "y", "s">>,
    <<"b", "o", "o", "k", " ", "a", " ", "w", "e", "e", "k", "e", "n", "d", " ", "o", "f", "f">>,
    <<"l", "o", "o", "k", " ", "i", "n", "t", "o", " ", "c", "o", "-", "w", "o", "r", "k", "i", "n", "g", " ", "s", "p", "a", "c", "e", "s">>,
    <<"r", "e", "s", "e", "a", "r", "c", "h", " ", "V", "P", "N", " ", "p", "r", "o", "v", "i", "d", "e", "r", "s">>,
    <<"c", "h", "e", "c", "k", " ", "w", "a", "r", "r", "a", "n", "t", "y", " ", "d", "a", "t", "e", "s">>,
    <<"e", "x", "p", "e", "r", "i", "m", "e", "n", "t", " ", "w", "i", "t", "h", " ", "n", "e", "w", " ", "r", "e", "c", "i", "p", "e">>,
    <<"p", "r", "o", "b", "a", "b", "l", "y", " ", "s", "h", "o", "u", "l", "d", "n", "'", "t", " ", "o", "v", "e", "r", "c", "o", "m", "m", "i", "t">>,
    <<"l", "e", "a", "r", "n", "i", "n", "g", " ", "n", "e", "w", " ", "s", "k", "i", "l", "l", " ", "m", "i", "g", "h", "t", " ", "b", "e", " ", "f", "u", "n">>
  >>

\* generate_note_examples: emotions (lines 358-361)
note_emotions ==
  <<
    <<"g", "o", "o", "d">>,
    <<"e", "x", "c", "i", "t", "e", "d">>,
    <<"w", "o", "r", "r", "i", "e", "d">>,
    <<"o", "p", "t", "i", "m", "i", "s", "t", "i", "c">>,
    <<"u", "n", "c", "e", "r", "t", "a", "i", "n">>,
    <<"c", "o", "n", "f", "i", "d", "e", "n", "t">>,
    <<"h", "o", "p", "e", "f", "u", "l">>,
    <<"c", "u", "r", "i", "o", "u", "s">>,
    <<"m", "o", "t", "i", "v", "a", "t", "e", "d">>
  >>

\* generate_note_examples: desires (lines 363-366)
note_desires ==
  <<
    <<"n", "e", "w", " ", "l", "a", "p", "t", "o", "p">>,
    <<"b", "e", "t", "t", "e", "r", " ", "r", "u", "n", "n", "i", "n", "g", " ", "s", "h", "o", "e", "s">>,
    <<"s", "t", "a", "n", "d", "i", "n", "g", " ", "d", "e", "s", "k">>,
    <<"c", "o", "m", "f", "o", "r", "t", "a", "b", "l", "e", " ", "c", "h", "a", "i", "r">>,
    <<"n", "o", "i", "s", "e", " ", "c", "a", "n", "c", "e", "l", "l", "i", "n", "g", " ", "h", "e", "a", "d", "p", "h", "o", "n", "e", "s">>,
    <<"n", "e", "w", " ", "s", "o", "f", "a">>
  >>

\* generate_note_examples: plans (lines 368-371)
note_plans ==
  <<
    <<"t", "o", " ", "p", "a", "i", "n", "t", " ", "t", "h", "e", " ", "r", "o", "o", "m">>,
    <<"w", "e", "e", "k", "e", "n", "d", " ", "t", "r", "i", "p">>,
    <<"g", "a", "r", "d", "e", "n", " ", "p", "r", "o", "j", "e", "c", "t">>,
    <<"h", "o", "m", "e", " ", "o", "f", "f", "i", "c", "e", " ", "s", "e", "t", "u", "p">>,
    <<"t", "o", " ", "r", "e", "o", "r", "g", "a", "n", "i", "z", "e", " ", "c", "l", "o", "s", "e", "t">>,
    <<"m", "e", "a", "l", " ", "p", "l", "a", "n", " ", "f", "o", "r", " ", "w", "e", "e", "k">>
  >>

\* generate_note_examples: goals (lines 373-376)
note_goals ==
  <<
    <<"l", "e", "a", "r", "n", " ", "a", " ", "n", "e", "w", " ", "l", "a", "n", "g", "u", "a", "g", "e">>,
    <<"r", "e", "a", "d", " ", "m", "o", "r", "e", " ", "b", "o", "o", "k", "s">>,
    <<"e", "x", "e", "r", "c", "i", "s", "e", " ", "r", "e", "g", "u", "l", "a", "r", "l", "y">>,
    <<"s", "a", "v", "e", " ", "m", "o", "r", "e", " ", "m", "o", "n", "e", "y">>,
    <<"n", "e", "t", "w", "o", "r", "k", " ", "m", "o", "r", "e">>,
    <<"i", "m", "p", "r", "o", "v", "e", " ", "m", "y", " ", "s", "k", "i", "l", "l", "s">>
  >>

\* generate_quote_examples: templates (lines 400-410)
quote_templates ==
  <<
    <<"f", "r", "o", "m", " ", "{", "s", "o", "u", "r", "c", "e", "}", ":", " ", "{", "c", "o", "n", "t", "e", "n", "t", "}">>,
    <<"f", "r", "o", "m", " ", "{", "s", "o", "u", "r", "c", "e", "}", " ", "p", "a", "g", "e", " ", "{", "p", "a", "g", "e", "}", ":", " ", "{", "c", "o", "n", "t", "e", "n", "t", "}">>,
    <<"f", "r", "o", "m", " ", "{", "s", "o", "u", "r", "c", "e", "}", " ", "m", "i", "n", "u", "t", "e", " ", "{", "m", "i", "n", "u", "t", "e", "}", ":", " ", "{", "c", "o", "n", "t", "e", "n", "t", "}">>,
    <<"f", "r", "o", "m", " ", "{", "s", "o", "u", "r", "c", "e", "}", " ", "c", "h", "a", "p", "t", "e", "r", " ", "{", "c", "h", "a", "p", "t", "e", "r", "}", ":", " ", "{", "c", "o", "n", "t", "e", "n", "t", "}">>,
    <<"{", "s", "o", "u", "r", "c", "e", "}", " ", "s", "a", "y", "s", ":", " ", "{", "c", "o", "n", "t", "e", "n", "t", "}">>,
    <<"q", "u", "o", "t", "e", " ", "f", "r", "o", "m", " ", "{", "s", "o", "u", "r", "c", "e", "}", ":", " ", "{", "c", "o", "n", "t", "e", "n", "t", "}">>,
    <<"r", "e", "a", "d", " ", "i", "n", " ", "{", "s", "o", "u", "r", "c", "e", "}", ":", " ", "{", "c", "o", "n", "t", "e", "n", "t", "}">>,
    <<"f", "r", "o", "m", " ", "{", "p", "e", "r", "s", "o", "n", "}", "'", "s", " ", "{", "m", "e", "d", "i", "u", "m", "}", ":", " ", "{", "c", "o", "n", "t", "e", "n", "t", "}">>,
    <<"f", "r", "o", "m", " ", "t", "h", "a", "t", " ", "{", "m", "e", "d", "i", "u", "m", "}", " ", "a", "b", "o", "u", "t", " ", "{", "t", "o", "p", "i", "c", "}", ":", " ", "{", "c", "o", "n", "t", "e", "n", "t", "}">>
  >>

\* generate_quote_examples: sources (lines 412-419)
quote_sources ==
  <<
    <<"a", "t", "o", "m", "i", "c", " ", "h", "a", "b", "i", "t", "s">>,
    <<"t", "h", "i", "n", "k", "i", "n", "g", " ", "f", "a", "s", "t", " ", "a", "n", "d", " ", "s", "l", "o", "w">>,
    <<"d", "e", "e", "p", " ", "w", "o", "r", "k">>,
    <<"t", "h", "e", " ", "m", "o", "m", " ", "t", "e", "s", "t">>,
    <<"s", "a", "p", "i", "e", "n", "s">>,
    <<"r", "a", "n", "g", "e">>,
    <<"g", "r", "i", "t">>,
    <<"b", "l", "i", "n", "k">>,
    <<"d", "r", "i", "v", "e">>,
    <<"q", "u", "i", "e", "t">>,
    <<"f", "l", "o", "w">>,
    <<"t", "h", "e", " ", "l", "e", "a", "n", " ", "s", "t", "a", "r", "t", "u", "p">>,
    <<"s", "t", "a", "r", "t", " ", "w", "i", "t", "h", " ", "w", "h", "y">>,
    <<"h", "o", "w", " ", "t", "o", " ", "w", "i", "n", " ", "f", "r", "i", "e", "n", "d", "s">>,
    <<"h", "u", "b", "e", "r", "m", "a", "n", " ", "l", "a", "b">>,
    <<"l", "e", "x", " ", "f", "r", "i", "e", "d", "m", "a", "n", " ", "p", "o", "d", "c", "a", "s", "t">>,
    <<"t", "e", "d", " ", "t", "a", "l", "k">>,
    <<"v", "e", "r", "i", "t", "a", "s", "i", "u", "m">>,
    <<"n", "e", "w", " ", "y", "o", "r", "k", " ", "t", "i", "m", "e", "s">>,
    <<"e", "c", "o", "n", "o", "m", "i", "s", "t">>,
    <<"b", "b", "c", " ", "d", "o", "c", "u", "m", "e", "n", "t", "a", "r", "y">>,
    <<"y", "o", "u", "t", "u", "b", "e", " ", "v", "i", "d", "e", "o">>,
    <<"t", "h", "a", "t", " ", "a", "r", "t", "i", "c", "l", "e">>,
    <<"t", "h", "e", " ", "l", "e", "c", "t", "u", "r", "e">>,
    <<"t", "h", "e", " ", "i", "n", "t", "e", "r", "v", "i", "e", "w">>,
    <<"t", "h", "e", " ", "s", "t", "u", "d", "y">>
  >>

\* generate_quote_examples: content (lines 421-436)
quote_content ==
  <<
    <<"y", "o", "u", " ", "d", "o", " ", "n", "o", "t", " ", "r", "i", "s", "e", " ", "t", "o", " ", "g", "o", "a", "l", "s", " ", "y", "o", "u", " ", "f", "a", "l", "l", " ", "t", "o", " ", "s", "y", "s", "t", "e", "m", "s">>,
    <<"s", "m", "a", "l", "l", " ", "w", "i", "n", "s", " ", "c", "o", "m", "p", "o", "u", "n", "d", " ", "o", "v", "e", "r", " ", "t", "i", "m", "e">>,
    <<"f", "o", "c", "u", "s", " ", "o", "n", " ", "w", "h", "y", " ", "n", "o", "t", " ", "w", "h", "a", "t">>,
    <<"s", "l", "e", "e", "p", " ", "i", "m", "p", "a", "c", "t", "s", " ", "m", "e", "m", "o", "r", "y", " ", "c", "o", "n", "s", "o", "l", "i", "d", "a", "t", "i", "o", "n">>,
    <<"m", "u", "l", "t", "i", "t", "a", "s", "k", "i", "n", "g", " ", "r", "e", "d", "u", "c", "e", "s", " ", "p", "r", "o", "d", "u", "c", "t", "i", "v", "i", "t", "y">>,
    <<"c", "o", "n", "s", "i", "s", "t", "e", "n", "c", "y", " ", "b", "e", "a", "t", "s", " ", "i", "n", "t", "e", "n", "s", "i", "t", "y">>,
    <<"a", "u", "t", "o", "m", "a", "t", "i", "o", "n", " ", "s", "a", "v", "e", "s", " ", "t", "i", "m", "e">>,
    <<"c", "a", "f", "f", "e", "i", "n", "e", " ", "h", "a", "s", " ", "a", " ", "5", " ", "h", "o", "u", "r", " ", "h", "a", "l", "f", " ", "l", "i", "f", "e">>,
    <<"h", "u", "m", "a", "n", "s", " ", "c", "o", "o", "p", "e", "r", "a", "t", "e", " ", "i", "n", " ", "l", "a", "r", "g", "e", " ", "n", "u", "m", "b", "e", "r", "s">>,
    <<"p", "e", "r", "s", "i", "s", "t", "e", "n", "c", "e", " ", "b", "e", "a", "t", "s", " ", "t", "a", "l", "e", "n", "t">>,
    <<"d", "e", "p", "t", "h", " ", "b", "e", "a", "t", "s", " ", "s", "h", "a", "l", "l", "o", "w", " ", "w", "o", "r", "k">>,
    <<"b", "r", "e", "a", "d", "t", "h", " ", "c", "a", "n", " ", "b", "e", "a", "t", " ", "s", "p", "e", "c", "i", "a", "l", "i", "z", "a", "t", "i", "o", "n">>,
    <<"e", "x", "e", "r", "c", "i", "s", "e", " ", "i", "m", "p", "r", "o", "v", "e", "s", " ", "m", "o", "o", "d">>,
    <<"r", "e", "a", "d", "i", "n", "g", " ", "i", "n", "c", "r", "e", "a", "s", "e", "s", " ", "v", "o", "c", "a", "b", "u", "l", "a", "r", "y">>
  >>

\* generate_quote_examples: people (lines 438-438)
quote_people ==
  <<
    <<"s", "a", "m", " ", "a", "l", "t", "m", "a", "n">>,
    <<"b", "i", "l", "l", " ", "g", "a", "t", "e", "s">>,
    <<"h", "u", "b", "e", "r", "m", "a", "n">>,
    <<"j", "a", "m", "e", "s", " ", "c", "l", "e", "a", "r">>,
    <<"t", "i", "m", " ", "f", "e", "r", "r", "i", "s", "s">>
  >>

\* generate_quote_examples: mediums (lines 439-439)
quote_mediums ==
  <<
    <<"p", "o", "d", "c", "a", "s", "t">>,
    <<"i", "n", "t", "e", "r", "v", "i", "e", "w">>,
    <<"t", "a", "l", "k">>,
    <<"v", "i", "d", "e", "o">>,
    <<"b", "o", "o", "k">>
  >>

\* generate_quote_examples: topics (lines 440-440)
quote_topics ==
  <<
    <<"p", "r", "o", "d", "u", "c", "t", "i", "v", "i", "t", "y">>,
    <<"s", "l", "e", "e", "p">>,
    <<"A", "I">>,
    <<"h", "a", "b", "i", "t", "s">>,
    <<"l", "e", "a", "r", "n", "i", "n", "g">>,
    <<"h", "e", "a", "l", "t", "h">>
  >>

\* generate_quote_examples: pages (lines 442-442)
quote_pages ==
  <<
    <<"1", "2">>,
    <<"3", "2">>,
    <<"4", "5">>,
    <<"8", "8">>,
    <<"1", "0", "4">>
  >>

\* generate_quote_examples: minutes (lines 443-443)
quote_minutes ==
  <<
    <<"5">>,
    <<"1", "0">>,
    <<"1", "2">>,
    <<"2", "2">>,
    <<"3", "3">>,
    <<"4", "5">>,
    <<"5", "5">>
  >>

\* generate_quote_examples: chapters (lines 444-444)
quote_chapters ==
  <<
    <<"1">>,
    <<"2">>,
    <<"3">>,
    <<"4">>,
    <<"5">>
  >>

\* generate_ambiguous_examples: ambiguous (lines 469-502)
ambiguous ==
  <<
    [text |-> <<"b", "u", "y", " ", "m", "i", "l", "k", " ", "b", "e", "f", "o", "r", "e", " ", "5", "p", "m">>, label |-> "SHOPPING"],
    [text |-> <<"n", "e", "e", "d", " ", "t", "o", " ", "g", "e", "t", " ", "e", "g", "g", "s", " ", "t", "o", "m", "o", "r", "r", "o", "w">>, label |-> "SHOPPING"],
    [text |-> <<"p", "i", "c", "k", " ", "u", "p", " ", "b", "r", "e", "a", "d", " ", "o", "n", " ", "t", "h", "e", " ", "w", "a", "y", " ", "h", "o", "m", "e">>, label |-> "SHOPPING"],
    [text |-> <<"r", "e", "m", "i", "n", "d", " ", "m", "e", " ", "t", "o", " ", "b", "u", "y", " ", "g", "r", "o", "c", "e", "r", "i", "e", "s">>, label |-> "REMINDER"],
    [text |-> <<"d", "o", "n", "'", "t", " ", "f", "o", "r", "g", "e", "t", " ", "s", "h", "o", "p", "p", "i", "n", "g", " ", "l", "i", "s", "t">>, label |-> "REMINDER"],
    [text |-> <<"s", "p", "e", "n", "t", " ", "2", "0", " ", "o", "n", " ", "m", "i", "l", "k", " ", "a", "n", "d", " ", "e", "g", "g", "s">>, label |-> "BUDGET"],
    [text |-> <<"p", "a", "i", "d", " ", "1", "5", " ", "f", "o", "r", " ", "g", "r", "o", "c", "e", "r", "i", "e", "s">>, label |-> "BUDGET"],
    [text |-> <<"d", "e", "n", "t", "i", "s", "t", " ", "a", "p", "p", "o", "i", "n", "t", "m", "e", "n", "t", " ", "t", "u", "e", "s", "d", "a", "y", " ", "c", "o", "s", "t", "s", " ", "1", "5", "0">>, label |-> "CALENDAR"],
    [text |-> <<"m", "e", "e", "t", "i", "n", "g", " ", "a", "t", " ", "3", "p", "m", " ", "a", "b", "o", "u", "t", " ", "t", "h", "e", " ", "b", "u", "d", "g", "e", "t">>, label |-> "CALENDAR"],
    [text |-> <<"s", "h", "o", "u", "l", "d", " ", "p", "r", "o", "b", "a", "b", "l", "y", " ", "c", "a", "l", "l", " ", "m", "o", "m">>, label |-> "NOTE"],
    [text |-> <<"t", "h", "i", "n", "k", "i", "n", "g", " ", "I", " ", "n", "e", "e", "d", " ", "t", "o", " ", "e", "x", "e", "r", "c", "i", "s", "e", " ", "m", "o", "r", "e">>, label |-> "NOTE"],
    [text |-> <<"m", "a", "y", "b", "e", " ", "l", "e", "a", "r", "n", " ", "g", "u", "i", "t", "a", "r">>, label |-> "NOTE"],
    [text |-> <<"m", "i", "l", "k">>, label |-> "SHOPPING"],
    [text |-> <<"t", "o", "m", "o", "r", "r", "o", "w">>, label |-> "REMINDER"],
    [text |-> <<"c", "a", "l", "l", " ", "j", "o", "h", "n">>, label |-> "REMINDER"],
    [text |-> <<"c", "o", "f", "f", "e", "e">>, label |-> "SHOPPING"],
    [text |-> <<"s", "p", "e", "n", "t", " ", "5", "0", " ", "a", "n", "d", " ", "n", "e", "e", "d", " ", "t", "o", " ", "b", "u", "y", " ", "m", "o", "r", "e">>, label |-> "BUDGET"],
    [text |-> <<"b", "u", "y", " ", "m", "i", "l", "k", " ", "a", "n", "d", " ", "c", "a", "l", "l", " ", "m", "o", "m">>, label |-> "SHOPPING"],
    [text |-> <<"m", "e", "e", "t", "i", "n", "g", " ", "t", "o", "m", "o", "r", "r", "o", "w", " ", "a", "b", "o", "u", "t", " ", "g", "r", "o", "c", "e", "r", "i", "e", "s">>, label |-> "CALENDAR"]
  >>

\* generate_budget_examples: the keyword arguments of template.format, in order (lines 108-114)
expense_kwargs ==
  <<
    [name |-> <<"a", "m", "o", "u", "n", "t">>, pool |-> budget_amounts],
    [name |-> <<"a", "m", "o", "u", "n", "t", "2">>, pool |-> budget_amounts],
    [name |-> <<"c", "u", "r", "r", "e", "n", "c", "y">>, pool |-> budget_currencies],
    [name |-> <<"i", "t", "e", "m">>, pool |-> budget_items],
    [name |-> <<"p", "l", "a", "c", "e">>, pool |-> budget_places]
  >>

\* generate_budget_examples: the keyword arguments of template.format, in order (lines 121-126)
income_kwargs ==
  <<
    [name |-> <<"a", "m", "o", "u", "n", "t">>, pool |-> budget_amounts],
    [name |-> <<"c", "u", "r", "r", "e", "n", "c", "y">>, pool |-> budget_currencies],
    [name |-> <<"i", "t", "e", "m">>, pool |-> budget_items],
    [name |-> <<"s", "o", "u", "r", "c", "e">>, pool |-> budget_sources]
  >>

\* generate_shopping_examples: the keyword arguments of template.format, in order (lines 175-180)
shopping_kwargs ==
  <<
    [name |-> <<"i", "t", "e", "m">>, pool |-> shopping_items],
    [name |-> <<"i", "t", "e", "m", "2">>, pool |-> shopping_items],
    [name |-> <<"i", "t", "e", "m", "3">>, pool |-> shopping_items],
    [name |-> <<"v", "a", "r", "i", "a", "n", "t">>, pool |-> shopping_variants]
  >>

\* generate_reminder_examples: the keyword arguments of template.format, in order (lines 231-237)
reminder_kwargs ==
  <<
    [name |-> <<"a", "c", "t", "i", "o", "n">>, pool |-> reminder_actions],
    [name |-> <<"p", "e", "r", "s", "o", "n">>, pool |-> reminder_people],
    [name |-> <<"w", "h", "e", "n">>, pool |-> reminder_when_options],
    [name |-> <<"t", "i", "m", "e">>, pool |-> reminder_times],
    [name |-> <<"d", "e", "a", "d", "l", "i", "n", "e">>, pool |-> reminder_deadlines]
  >>

\* generate_calendar_examples: the keyword arguments of template.format, in order (lines 287-295)
calendar_kwargs ==
  <<
    [name |-> <<"e", "v", "e", "n", "t">>, pool |-> calendar_events],
    [name |-> <<"p", "e", "r", "s", "o", "n">>, pool |-> calendar_people],
    [name |-> <<"w", "h", "e", "n">>, pool |-> calendar_when_options],
    [name |-> <<"d", "a", "y">>, pool |-> calendar_days],
    [name |-> <<"t", "i", "m", "e">>, pool |-> calendar_times],
    [name |-> <<"d", "a", "t", "e">>, pool |-> calendar_dates],
    [name |-> <<"f", "r", "e", "q", "u", "e", "n", "c", "y">>, pool |-> calendar_frequencies]
  >>

\* generate_note_examples: the keyword arguments of template.format, in order (lines 380-389)
note_kwargs ==
  <<
    [name |-> <<"t", "o", "p", "i", "c">>, pool |-> note_topics],
    [name |-> <<"i", "d", "e", "a">>, pool |-> note_ideas],
    [name |-> <<"o", "b", "s", "e", "r", "v", "a", "t", "i", "o", "n">>, pool |-> note_observations],
    [name |-> <<"t", "h", "o", "u", "g", "h", "t">>, pool |-> note_thoughts],
    [name |-> <<"e", "m", "o", "t", "i", "o", "n">>, pool |-> note_emotions],
    [name |-> <<"d", "e", "s", "i", "r", "e">>, pool |-> note_desires],
    [name |-> <<"p", "l", "a", "n">>, pool |-> note_plans],
    [name |-> <<"g", "o", "a", "l">>, pool |-> note_goals]
  >>

\* generate_quote_examples: the keyword arguments of template.format, in order (lines 448-457)
quote_kwargs ==
  <<
    [name |-> <<"s", "o", "u", "r", "c", "e">>, pool |-> quote_sources],
    [name |-> <<"c", "o", "n", "t", "e", "n", "t">>, pool |-> quote_content],
    [name |-> <<"p", "e", "r", "s", "o", "n">>, pool |-> quote_people],
    [name |-> <<"m", "e", "d", "i", "u", "m">>, pool |-> quote_mediums],
    [name |-> <<"t", "o", "p", "i", "c">>, pool |-> quote_topics],
    [name |-> <<"p", "a", "g", "e">>, pool |-> quote_pages],
    [name |-> <<"m", "i", "n", "u", "t", "e">>, pool |-> quote_minutes],
    [name |-> <<"c", "h", "a", "p", "t", "e", "r">>, pool |-> quote_chapters]
  >>

-----------------------------------------------------------------------------
(* The random module.  The Mersenne Twister is outside the repository and   *)
(* beyond TLC's integers; what the script relies on is kept: one global     *)
(* state, set by random.seed, advanced by every draw, and every draw a      *)
(* function of the state.  The sequence that seed 42 selects is unknown to  *)
(* the model, so `stream' ranges over NumStreams sequences.                 *)

LcgMod == 65537
LcgMul == 75
LcgInc == 74

\* The state after one draw.
Advance(r) == (LcgMul * r + LcgInc) % LcgMod

\* Faulty variant: the seed varies from process to process (a seed taken from the clock).
SeedStateOfProcess(s) == (Seed + s + run) % LcgMod

\* random.seed(42)
SeedState(s) == (Seed + s) % LcgMod

\* The index random.choice or random.shuffle draws below n in state r.
RandBelow(r, n) == Advance(r) % n

\* random.random() in state r, as a numerator over 2^RandomBits.
Random(r) == Advance(r) % (2 ^ RandomBits)

\* random.choice(seq) in state r.
Choice(seq, r) == seq[RandBelow(r, Len(seq)) + 1]

-----------------------------------------------------------------------------
(* Python's built-ins, as the script uses them *)

Min(a, b) == IF a < b THEN a ELSE b
Max(a, b) == IF a > b THEN a ELSE b

\* Faulty variant: the end of the slice is taken inclusive.
SlicePrefixInclusive(seq, n) ==
  IF n >= 0 THEN SubSeq(seq, 1, Min(n + 1, Len(seq)))
  ELSE SubSeq(seq, 1, Max(0, Len(seq) + n + 1))

\* seq[:n]
SlicePrefix(seq, n) ==
  IF n >= 0 THEN SubSeq(seq, 1, Min(n, Len(seq)))
  ELSE SubSeq(seq, 1, Max(0, Len(seq) + n))

\* seq[n:]
SliceSuffix(seq, n) ==
  IF n >= 0 THEN SubSeq(seq, Min(n, Len(seq)) + 1, Len(seq))
  ELSE SubSeq(seq, Max(0, Len(seq) + n) + 1, Len(seq))

\* The largest power of two strictly below q (q >= 2).
RECURSIVE PowerBelow(_, _)
PowerBelow(q, p) == IF 2 * p < q THEN PowerBelow(q, 2 * p) ELSE p

\* The double nearest t/10 differs from t/10 by DoubleError(t) / (10 * 2^54).
DoubleError(t) == CASE t = 3 -> -2 [] t = 7 -> -8 [] t = 9 -> 4

\* int(n * 0.t) for n >= 0, in IEEE double arithmetic: the exact product is
\* n*t/10 + n*DoubleError(t)/(10*2^54).  Off a multiple of 10 the error is far
\* from the next integer.  On one, a negative error leaves the product below
\* the integer q = n*t/10, and rounding to 53 bits restores q unless the
\* shortfall exceeds half the spacing of the doubles below q.
IntTimesTenths(n, t) ==
  LET q == (n * t) \div 10
  IN IF (n * t) % 10 # 0 \/ DoubleError(t) >= 0 \/ q < 2 THEN q
     ELSE IF n * (0 - DoubleError(t)) > 20 * PowerBelow(q, 1) THEN q - 1 ELSE q

\* str.replace(old, new): every non-overlapping occurrence, left to right.
\* From i on, the text before the next occurrence of old is copied, new is
\* put for the occurrence, and the search goes on behind it.
RECURSIVE ReplaceFrom(_, _, _, _)
ReplaceFrom(text, i, old, new) ==
  LET found == {j \in i..(Len(text) - Len(old) + 1) :
                  SubSeq(text, j, j + Len(old) - 1) = old}
  IN IF found = {} THEN SubSeq(text, i, Len(text))
     ELSE LET j == CHOOSE m \in found : \A n \in found : m <= n
          IN SubSeq(text, i, j - 1) \o new \o ReplaceFrom(text, j + Len(old), old, new)

\* Faulty variant: only the first occurrence is replaced.
ReplaceFirstOnly(text, old, new) ==
  LET at == {i \in 1..Len(text) :
               i + Len(old) - 1 <= Len(text) /\ SubSeq(text, i, i + Len(old) - 1) = old}
  IN IF at = {} THEN text
     ELSE LET i == CHOOSE j \in at : \A m \in at : j <= m
          IN SubSeq(text, 1, i - 1) \o new \o SubSeq(text, i + Len(old), Len(text))

Replace(text, old, new) == ReplaceFrom(text, 1, old, new)

\* Whether old occurs in text.
Occurs(old, text) ==
  \E i \in 1..Len(text) :
    i + Len(old) - 1 <= Len(text) /\ SubSeq(text, i, i + Len(old) - 1) = old

\* Faulty variant: a field whose name ends in a digit is left as it stands.
LookupUnnumbered(kwargs, name) ==
  IF name[Len(name)] \in {"2", "3"} THEN <<"{">> \o name \o <<"}">>
  ELSE kwargs[CHOOSE i \in 1..Len(kwargs) : kwargs[i].name = name].value

\* kwargs[name] of a call template.format(**kwargs).
Lookup(kwargs, name) ==
  kwargs[CHOOSE i \in 1..Len(kwargs) : kwargs[i].name = name].value

\* The position of the "}" closing the replacement field opened at i.
CloseBrace(template, i) ==
  CHOOSE j \in (i + 1)..Len(template) :
    /\ template[j] = "}"
    /\ \A k \in (i + 1)..(j - 1) : template[k] # "}"

\* str.format: a replacement field {name} becomes kwargs[name], all else is copied.
\* From i on, the text before the next "{" is copied, the field's value
\* follows, and the formatting goes on behind the field's "}".
RECURSIVE FormatFrom(_, _, _)
FormatFrom(template, i, kwargs) ==
  LET opens == {j \in i..Len(template) : template[j] = "{"}
  IN IF opens = {} THEN SubSeq(template, i, Len(template))
     ELSE LET o == CHOOSE m \in opens : \A n \in opens : m <= n
              j == CloseBrace(template, o)
          IN SubSeq(template, i, o - 1)
               \o Lookup(kwargs, SubSeq(template, o + 1, j - 1))
               \o FormatFrom(template, j + 1, kwargs)

Format(template, kwargs) == FormatFrom(template, 1, kwargs)

-----------------------------------------------------------------------------
(* add_typos *)

\* random.random() > typo_rate, for the draw u / 2^RandomBits and the rate
\* typo_rate = rate / 100.
DrawAbove(u, rate) == 100 * u > rate * (2 ^ RandomBits)

\* Faulty variant: when the chosen rule's match is absent, the first rule of
\* the table whose match occurs is applied instead.
AddTyposRetry(text, rate, u, k) ==
  IF DrawAbove(u, rate) THEN text
  ELSE IF Occurs(typo_patterns[k + 1][1], text)
       THEN Replace(text, typo_patterns[k + 1][1], typo_patterns[k + 1][2])
       ELSE LET others == {m \in 1..Len(typo_patterns) : Occurs(typo_patterns[m][1], text)}
            IN IF others = {} THEN text
               ELSE LET m == CHOOSE m \in others : \A o \in others : m <= o
                    IN Replace(text, typo_patterns[m][1], typo_patterns[m][2])

\* add_typos with its two draws given: u for random.random(), k for the index
\* of random.choice(typo_patterns).
AddTyposWith(text, rate, u, k) ==
  IF DrawAbove(u, rate) THEN text
  ELSE Replace(text, typo_patterns[k + 1][1], typo_patterns[k + 1][2])

\* The draws a call of add_typos consumes: random.random(), and
\* random.choice(typo_patterns) unless the call returned before it.
AddTyposDraws(rate, u) == IF DrawAbove(u, rate) THEN 1 ELSE 2

\* add_typos(text, typo_rate) in state r: the text returned and the state left.
add_typos(text, rate, r) ==
  LET u == Random(r)
      k == RandBelow(Advance(r), Len(typo_patterns))
  IN [text |-> AddTyposWith(text, rate, u, k),
      rng  |-> IF AddTyposDraws(rate, u) = 1 THEN Advance(r) ELSE Advance(Advance(r))]

-----------------------------------------------------------------------------
(* The generators *)

\* Faulty variant: one draw is made and shared by all the keywords.
RECURSIVE DrawKwargsShared(_, _)
DrawKwargsShared(slots, r) ==
  IF slots = <<>> THEN [kwargs |-> <<>>, rng |-> Advance(r)]
  ELSE [kwargs |-> <<[name |-> Head(slots).name,
                      value |-> Choice(Head(slots).pool, r)]>>
                     \o DrawKwargsShared(Tail(slots), r).kwargs,
        rng |-> Advance(r)]

\* The keyword arguments of one template.format call, each a random.choice
\* evaluated in order from state r.
RECURSIVE DrawKwargs(_, _)
DrawKwargs(slots, r) ==
  IF slots = <<>> THEN [kwargs |-> <<>>, rng |-> r]
  ELSE LET rest == DrawKwargs(Tail(slots), Advance(r))
       IN [kwargs |-> <<[name |-> Head(slots).name,
                         value |-> Choice(Head(slots).pool, r)]>> \o rest.kwargs,
           rng |-> rest.rng]

\* One pass of a generator's loop: choose a template, fill it, add typos, append.
\* The keyword arguments are evaluated before format is entered, and format
\* returns before add_typos is called (the tests on kw and example only fix
\* this order of evaluation).
ExampleStep(st, templates, slots, rate, label) ==
  LET template == Choice(templates, st.rng)
      kw == DrawKwargs(slots, Advance(st.rng))
      example == Format(template, kw.kwargs)
      typo == add_typos(example, rate, kw.rng)
  IN IF kw.rng < 0 \/ Len(example) < 0 THEN st
     ELSE [examples |-> Append(st.examples, [text |-> typo.text, label |-> label]),
           rng |-> typo.rng]

ExpenseStep(st) ==
  ExampleStep(st, expense_templates, expense_kwargs, BudgetTypoRate, "BUDGET")

\* Faulty variant: the income examples get a label of their own.
IncomeStepOwnLabel(st) ==
  ExampleStep(st, income_templates, income_kwargs, BudgetTypoRate, "INCOME")

IncomeStep(st) ==
  ExampleStep(st, income_templates, income_kwargs, BudgetTypoRate, "BUDGET")

\* Faulty variant: the shopping loop calls add_typos with the rate of the budget loops.
ShoppingStepBudgetRate(st) ==
  ExampleStep(st, shopping_templates, shopping_kwargs, BudgetTypoRate, "SHOPPING")

ShoppingStep(st) ==
  ExampleStep(st, shopping_templates, shopping_kwargs, ShoppingTypoRate, "SHOPPING")

ReminderStep(st) ==
  ExampleStep(st, reminder_templates, reminder_kwargs, ReminderTypoRate, "REMINDER")

CalendarStep(st) ==
  ExampleStep(st, calendar_templates, calendar_kwargs, CalendarTypoRate, "CALENDAR")

NoteStep(st) ==
  ExampleStep(st, note_templates, note_kwargs, NoteTypoRate, "NOTE")

QuoteStep(st) ==
  ExampleStep(st, quote_templates, quote_kwargs, QuoteTypoRate, "QUOTE")

\* Faulty variant: the ambiguous examples get a label of their own.
AmbiguousStepOwnLabel(st) ==
  LET entry == st.todo[1]
      typo == add_typos(entry.text, AmbiguousTypoRate, st.rng)
  IN [examples |-> Append(st.examples, [text |-> typo.text, label |-> "AMBIGUOUS"]),
      rng |-> typo.rng,
      todo |-> Tail(st.todo)]

\* Faulty variant: the curated text is appended as it stands, add_typos is
\* not called.
AmbiguousStepLiteral(st) ==
  [examples |-> Append(st.examples, [text |-> st.todo[1].text, label |-> st.todo[1].label]),
   rng |-> st.rng,
   todo |-> Tail(st.todo)]

\* One pass of `for text, label in ambiguous[:count]'.
AmbiguousStep(st) ==
  LET entry == st.todo[1]
      typo == add_typos(entry.text, AmbiguousTypoRate, st.rng)
  IN [examples |-> Append(st.examples, [text |-> typo.text, label |-> entry.label]),
      rng |-> typo.rng,
      todo |-> Tail(st.todo)]

\* Faulty variant: x[i] = x[j] without the exchange.
ShuffleStepOverwrite(st) ==
  LET j == RandBelow(st.rng, st.i + 1)
      x == st.x
  IN [x |-> [x EXCEPT ![st.i + 1] = x[j + 1]],
      i |-> st.i - 1,
      rng |-> Advance(st.rng)]

\* One pass of random.shuffle's loop `for i in reversed(range(1, len(x)))':
\* j = randbelow(i + 1); x[i], x[j] = x[j], x[i]  (x indexed from 0).
ShuffleStep(st) ==
  LET j == RandBelow(st.rng, st.i + 1)
      x == st.x
  IN [x |-> [x EXCEPT ![st.i + 1] = x[j + 1], ![j + 1] = x[st.i + 1]],
      i |-> st.i - 1,
      rng |-> Advance(st.rng)]

\* The body of each loop of the script, by the name of the loop.
LoopBody(loop, st) ==
  CASE loop = "expense" -> ExpenseStep(st)
    [] loop = "income" -> IncomeStep(st)
    [] loop = "shopping" -> ShoppingStep(st)
    [] loop = "reminder" -> ReminderStep(st)
    [] loop = "calendar" -> CalendarStep(st)
    [] loop = "note" -> NoteStep(st)
    [] loop = "quote" -> QuoteStep(st)
    [] loop = "ambiguous" -> AmbiguousStep(st)
    [] loop = "shuffle" -> ShuffleStep(st)

\* The loop run k times from st: `for _ in range(k): st = body(st)'.  The
\* halves are evaluated in order (the test on mid.rng only fixes the order of
\* evaluation).
RECURSIVE Iterate(_, _, _)
Iterate(loop, k, st) ==
  IF k <= 0 THEN st
  ELSE IF k = 1 THEN LoopBody(loop, st)
  ELSE LET mid == Iterate(loop, k \div 2, st)
       IN IF mid.rng < 0 THEN mid ELSE Iterate(loop, k - (k \div 2), mid)

\* Each generator: the examples returned for count, called in state r, and
\* the state left.
generate_budget_examples(count, r) ==
  LET expense == Iterate("expense", IntTimesTenths(count, ExpenseTenths),
                         [examples |-> <<>>, rng |-> r])
  IN IF expense.rng < 0 THEN expense
     ELSE Iterate("income", IntTimesTenths(count, IncomeTenths), expense)

generate_shopping_examples(count, r) ==
  Iterate("shopping", count, [examples |-> <<>>, rng |-> r])

generate_reminder_examples(count, r) ==
  Iterate("reminder", count, [examples |-> <<>>, rng |-> r])

generate_calendar_examples(count, r) ==
  Iterate("calendar", count, [examples |-> <<>>, rng |-> r])

generate_note_examples(count, r) ==
  Iterate("note", count, [examples |-> <<>>, rng |-> r])

generate_quote_examples(count, r) ==
  Iterate("quote", count, [examples |-> <<>>, rng |-> r])

\* Faulty variant: the curated list is repeated until count examples are made.
generate_ambiguous_padded(count, r) ==
  LET todo == [i \in 1..count |-> ambiguous[((i - 1) % Len(ambiguous)) + 1]]
      done == Iterate("ambiguous", Len(todo),
                      [examples |-> <<>>, rng |-> r, todo |-> todo])
  IN [examples |-> done.examples, rng |-> done.rng]

generate_ambiguous_examples(count, r) ==
  LET todo == SlicePrefix(ambiguous, count)
      done == Iterate("ambiguous", Len(todo),
                      [examples |-> <<>>, rng |-> r, todo |-> todo])
  IN [examples |-> done.examples, rng |-> done.rng]

-----------------------------------------------------------------------------
(* main *)

\* random.shuffle(x) in state r.
Shuffled(x, r) ==
  Iterate("shuffle", Len(x) - 1, [x |-> x, i |-> Len(x) - 1, rng |-> r])

\* Faulty variant: the split index is rounded instead of truncated.
SplitIndexRounded(n) == (n * SplitTenths + 5) \div 10

\* split_idx = int(len(all_examples) * 0.9)
SplitIndex(n) == IntTimesTenths(n, SplitTenths)

\* How many examples of seq carry label l.
CountLabel(seq, l) == Cardinality({i \in 1..Len(seq) : seq[i].label = l})

\* Counter(ex['label'] for ex in train): a count for each label that occurs.
Counter(seq) ==
  [l \in {seq[i].label : i \in 1..Len(seq)} |-> CountLabel(seq, l)]

\* prepare_dataset of train_classifier.py: the integer labels of data, or the
\* ValueError raised at the first label that LABEL_MAP does not hold.
prepare_dataset(data) ==
  IF \E i \in 1..Len(data) : data[i].label \notin DOMAIN LABEL_MAP
  THEN [raised |-> "ValueError", labels |-> <<>>]
  ELSE [raised |-> "none", labels |-> [i \in 1..Len(data) |-> LABEL_MAP[data[i].label]]]

-----------------------------------------------------------------------------
(* The configurations main() is run with.  The script's own is MainConfig;  *)
(* the others vary the seven counts it passes.                              *)

Generators ==
  <<"budget", "shopping", "reminder", "calendar", "note", "quote", "ambiguous">>

MainConfig ==
  [budget |-> MainBudgetCount, shopping |-> MainShoppingCount,
   reminder |-> MainReminderCount, calendar |-> MainCalendarCount,
   note |-> MainNoteCount, quote |-> MainQuoteCount,
   ambiguous |-> MainAmbiguousCount]

\* The sequences of k counts that sum to at most t.
RECURSIVE CountTuples(_, _)
CountTuples(k, t) ==
  IF k = 0 THEN {<<>>}
  ELSE UNION {{<<c>> \o rest : rest \in CountTuples(k - 1, t - c)} : c \in 0..t}

ConfigOf(s) ==
  [budget |-> s[1], shopping |-> s[2], reminder |-> s[3], calendar |-> s[4],
   note |-> s[5], quote |-> s[6], ambiguous |-> s[7]]

MixedConfigs == {ConfigOf(s) : s \in CountTuples(Len(Generators), MaxTotal)}

SingleConfigs ==
  {ConfigOf([i \in 1..Len(Generators) |-> IF i = g THEN c ELSE 0]) :
     g \in 1..Len(Generators), c \in 0..MaxSingle}

\* 90 is the least count whose product with 0.7 is not the double of an
\* integer (90 * 0.7 = 62.99999999999999).
Configs ==
  MixedConfigs \cup SingleConfigs \cup {MainConfig}
    \cup {ConfigOf(<<90, 0, 0, 0, 0, 0, 0>>)}

\* A local of main() before its assignment.
Unset == <<>>

\* training_set_v2.json: missing before any run; of length zero once opened
\* with 'w'; and, with the first n examples of data.train written, cut short
\* ("truncated") unless json.dump ran to its end ("complete").
NoFile == [state |-> "absent", train |-> <<>>, test |-> <<>>]
EmptyFile == [state |-> "truncated", train |-> <<>>, test |-> <<>>]
Dumped(data) == [state |-> "complete", train |-> data.train, test |-> data.test]
DumpedUpTo(data, n) ==
  [state |-> "truncated", train |-> SubSeq(data.train, 1, n), test |-> <<>>]

\* `import random' seeds the generator from the operating system: a state
\* that no two processes share.
OsEntropy(n) == n

\* The concatenation main() builds.
Combined ==
  budget_examples \o shopping_examples \o reminder_examples \o calendar_examples
    \o note_examples \o quote_examples \o ambiguous_examples

\* output = {"train": train_examples, "test": test_examples}
Output == [train |-> train_examples, test |-> test_examples]

Identity(n) == [i \in 1..n |-> i]

NoCall == [op |-> "none"]
NoResult == [op |-> "none"]

-----------------------------------------------------------------------------
(* The script, one process after the other *)

Init ==
  /\ cfg \in Configs
  /\ stream \in 0..(NumStreams - 1)
  /\ run = 1
  /\ pc = "seed"
  /\ rng = OsEntropy(1)
  /\ budget_examples = Unset /\ shopping_examples = Unset
  /\ reminder_examples = Unset /\ calendar_examples = Unset
  /\ note_examples = Unset /\ quote_examples = Unset
  /\ ambiguous_examples = Unset
  /\ all_examples = Unset /\ origin = Unset
  /\ train_examples = Unset /\ test_examples = Unset
  /\ train_counts = Unset
  /\ file = NoFile
  /\ written = <<>>
  /\ inp = NoCall /\ out = NoResult

\* random.seed(42) at import
SeedRandom ==
  /\ pc = "seed"
  /\ rng' = SeedState(stream)
  /\ pc' = "budget"
  /\ UNCHANGED <<cfg, stream, run, budget_examples, shopping_examples,
                 reminder_examples, calendar_examples, note_examples,
                 quote_examples, ambiguous_examples, all_examples, origin,
                 train_examples, test_examples, train_counts, file, written,
                 inp, out>>

CallBudget ==
  /\ pc = "budget"
  /\ LET res == generate_budget_examples(cfg.budget, rng)
     IN budget_examples' = res.examples /\ rng' = res.rng
  /\ pc' = "shopping"
  /\ UNCHANGED <<cfg, stream, run, shopping_examples,
                 reminder_examples, calendar_examples, note_examples,
                 quote_examples, ambiguous_examples, all_examples, origin,
                 train_examples, test_examples, train_counts, file, written,
                 inp, out>>

CallShopping ==
  /\ pc = "shopping"
  /\ LET res == generate_shopping_examples(cfg.shopping, rng)
     IN shopping_examples' = res.examples /\ rng' = res.rng
  /\ pc' = "reminder"
  /\ UNCHANGED <<cfg, stream, run, budget_examples,
                 reminder_examples, calendar_examples, note_examples,
                 quote_examples, ambiguous_examples, all_examples, origin,
                 train_examples, test_examples, train_counts, file, written,
                 inp, out>>

CallReminder ==
  /\ pc = "reminder"
  /\ LET res == generate_reminder_examples(cfg.reminder, rng)
     IN reminder_examples' = res.examples /\ rng' = res.rng
  /\ pc' = "calendar"
  /\ UNCHANGED <<cfg, stream, run, budget_examples, shopping_examples,
                 calendar_examples, note_examples,
                 quote_examples, ambiguous_examples, all_examples, origin,
                 train_examples, test_examples, train_counts, file, written,
                 inp, out>>

CallCalendar ==
  /\ pc = "calendar"
  /\ LET res == generate_calendar_examples(cfg.calendar, rng)
     IN calendar_examples' = res.examples /\ rng' = res.rng
  /\ pc' = "note"
  /\ UNCHANGED <<cfg, stream, run, budget_examples, shopping_examples,
                 reminder_examples, note_examples,
                 quote_examples, ambiguous_examples, all_examples, origin,
                 train_examples, test_examples, train_counts, file, written,
                 inp, out>>

CallNote ==
  /\ pc = "note"
  /\ LET res == generate_note_examples(cfg.note, rng)
     IN note_examples' = res.examples /\ rng' = res.rng
  /\ pc' = "quote"
  /\ UNCHANGED <<cfg, stream, run, budget_examples, shopping_examples,
                 reminder_examples, calendar_examples,
                 quote_examples, ambiguous_examples, all_examples, origin,
                 train_examples, test_examples, train_counts, file, written,
                 inp, out>>

CallQuote ==
  /\ pc = "quote"
  /\ LET res == generate_quote_examples(cfg.quote, rng)
     IN quote_examples' = res.examples /\ rng' = res.rng
  /\ pc' = "ambiguous"
  /\ UNCHANGED <<cfg, stream, run, budget_examples, shopping_examples,
                 reminder_examples, calendar_examples, note_examples,
                 ambiguous_examples, all_examples, origin,
                 train_examples, test_examples, train_counts, file, written,
                 inp, out>>

CallAmbiguous ==
  /\ pc = "ambiguous"
  /\ LET res == generate_ambiguous_examples(cfg.ambiguous, rng)
     IN ambiguous_examples' = res.examples /\ rng' = res.rng
  /\ pc' = "combine"
  /\ UNCHANGED <<cfg, stream, run, budget_examples, shopping_examples,
                 reminder_examples, calendar_examples, note_examples,
                 quote_examples, all_examples, origin,
                 train_examples, test_examples, train_counts, file, written,
                 inp, out>>

\* A generator call is left by an exception (KeyboardInterrupt, MemoryError):
\* main() catches nothing, the process ends there.
GenerationAborts ==
  /\ pc \in {Generators[g] : g \in 1..Len(Generators)}
  /\ pc' = "failed"
  /\ UNCHANGED <<cfg, stream, run, rng, budget_examples, shopping_examples,
                 reminder_examples, calendar_examples, note_examples,
                 quote_examples, ambiguous_examples, all_examples, origin,
                 train_examples, test_examples, train_counts, file, written,
                 inp, out>>

\* Faulty variant: the ambiguous examples are put in front.
CombineAmbiguousFirst ==
  /\ pc = "combine"
  /\ all_examples' = ambiguous_examples \o budget_examples \o shopping_examples
                       \o reminder_examples \o calendar_examples \o note_examples
                       \o quote_examples
  /\ origin' = Identity(Len(Combined))
  /\ pc' = "shuffle"
  /\ UNCHANGED <<cfg, stream, run, rng, budget_examples, shopping_examples,
                 reminder_examples, calendar_examples, note_examples,
                 quote_examples, ambiguous_examples,
                 train_examples, test_examples, train_counts, file, written,
                 inp, out>>

\* all_examples = budget_examples + ... + ambiguous_examples
Combine ==
  /\ pc = "combine"
  /\ all_examples' = Combined
  /\ origin' = Identity(Len(Combined))
  /\ pc' = "shuffle"
  /\ UNCHANGED <<cfg, stream, run, rng, budget_examples, shopping_examples,
                 reminder_examples, calendar_examples, note_examples,
                 quote_examples, ambiguous_examples,
                 train_examples, test_examples, train_counts, file, written,
                 inp, out>>

\* random.shuffle(all_examples); origin undergoes the same exchanges.
Shuffle ==
  /\ pc = "shuffle"
  /\ all_examples' = Shuffled(all_examples, rng).x
  /\ origin' = Shuffled(origin, rng).x
  /\ rng' = Shuffled(all_examples, rng).rng
  /\ pc' = "split"
  /\ UNCHANGED <<cfg, stream, run, budget_examples, shopping_examples,
                 reminder_examples, calendar_examples, note_examples,
                 quote_examples, ambiguous_examples,
                 train_examples, test_examples, train_counts, file, written,
                 inp, out>>

\* split_idx = int(len(all_examples) * 0.9); train = [:split_idx]; test = [split_idx:]
Split ==
  /\ pc = "split"
  /\ train_examples' = SlicePrefix(all_examples, SplitIndex(Len(all_examples)))
  /\ test_examples' = SliceSuffix(all_examples, SplitIndex(Len(all_examples)))
  /\ pc' = "count"
  /\ UNCHANGED <<cfg, stream, run, rng, budget_examples, shopping_examples,
                 reminder_examples, calendar_examples, note_examples,
                 quote_examples, ambiguous_examples, all_examples, origin,
                 train_counts, file, written, inp, out>>

\* Faulty variant: the labels are counted over all the examples.
CountLabelsOverAll ==
  /\ pc = "count"
  /\ train_counts' = Counter(all_examples)
  /\ pc' = "open"
  /\ UNCHANGED <<cfg, stream, run, rng, budget_examples, shopping_examples,
                 reminder_examples, calendar_examples, note_examples,
                 quote_examples, ambiguous_examples, all_examples, origin,
                 train_examples, test_examples, file, written, inp, out>>

\* train_counts = Counter(ex['label'] for ex in train_examples)
CountLabels ==
  /\ pc = "count"
  /\ train_counts' = Counter(train_examples)
  /\ pc' = "open"
  /\ UNCHANGED <<cfg, stream, run, rng, budget_examples, shopping_examples,
                 reminder_examples, calendar_examples, note_examples,
                 quote_examples, ambiguous_examples, all_examples, origin,
                 train_examples, test_examples, file, written, inp, out>>

\* open(output_file, 'w') creates the file or truncates it
OpenFile ==
  /\ pc = "open"
  /\ file' = EmptyFile
  /\ pc' = "dump"
  /\ UNCHANGED <<cfg, stream, run, rng, budget_examples, shopping_examples,
                 reminder_examples, calendar_examples, note_examples,
                 quote_examples, ambiguous_examples, all_examples, origin,
                 train_examples, test_examples, train_counts, written, inp, out>>

\* json.dump(output, f, indent=2)
DumpFile ==
  /\ pc = "dump"
  /\ file' = Dumped(Output)
  /\ written' = Append(written, Output)
  /\ pc' = "done"
  /\ UNCHANGED <<cfg, stream, run, rng, budget_examples, shopping_examples,
                 reminder_examples, calendar_examples, note_examples,
                 quote_examples, ambiguous_examples, all_examples, origin,
                 train_examples, test_examples, train_counts, inp, out>>

\* The script is run again: a new process, the file of the last one on disk.
NextProcess ==
  /\ pc = "done"
  /\ run < MaxRuns
  /\ run' = run + 1
  /\ rng' = OsEntropy(run + 1)
  /\ pc' = "seed"
  /\ budget_examples' = Unset /\ shopping_examples' = Unset
  /\ reminder_examples' = Unset /\ calendar_examples' = Unset
  /\ note_examples' = Unset /\ quote_examples' = Unset
  /\ ambiguous_examples' = Unset
  /\ all_examples' = Unset /\ origin' = Unset
  /\ train_examples' = Unset /\ test_examples' = Unset
  /\ train_counts' = Unset
  /\ UNCHANGED <<cfg, stream, file, written, inp, out>>

Next ==
  \/ SeedRandom
  \/ CallBudget \/ CallShopping \/ CallReminder \/ CallCalendar
  \/ CallNote \/ CallQuote \/ CallAmbiguous
  \/ GenerationAborts
  \/ Combine \/ Shuffle \/ Split \/ CountLabels
  \/ OpenFile \/ DumpFile
  \/ NextProcess

Spec == Init /\ [][Next]_vars

-----------------------------------------------------------------------------
(* Single calls: add_typos, and one pass of a generator's loop, with the    *)
(* draws enumerated instead of taken from the generator's sequence.         *)

\* The variables of the script's process, at rest during a single call.
process == <<cfg, stream, run, rng, budget_examples, shopping_examples,
             reminder_examples, calendar_examples, note_examples, quote_examples,
             ambiguous_examples, all_examples, origin, train_examples,
             test_examples, train_counts, file, written>>

AtRest ==
  /\ cfg = MainConfig /\ stream = 0 /\ run = 0 /\ rng = OsEntropy(0)
  /\ budget_examples = Unset /\ shopping_examples = Unset
  /\ reminder_examples = Unset /\ calendar_examples = Unset
  /\ note_examples = Unset /\ quote_examples = Unset
  /\ ambiguous_examples = Unset
  /\ all_examples = Unset /\ origin = Unset
  /\ train_examples = Unset /\ test_examples = Unset
  /\ train_counts = Unset
  /\ file = NoFile
  /\ written = <<>>

\* The draws random.random() can return, and the rates add_typos is tried with:
\* the script's own, and 0, 1/2 and 1.
RandomDraws == 0..(2 ^ RandomBits - 1)
TypoRates == {0, QuoteTypoRate, BudgetTypoRate, 50, 100}
\* The texts add_typos is tried on: the curated ambiguous ones, and an
\* expansion of "{event} every {frequency}" in generate_calendar_examples,
\* "standup every tuesday and thursday".
GeneratedTexts ==
  {Format(calendar_templates[5],
          <<[name |-> calendar_kwargs[1].name, value |-> calendar_events[4]],
            [name |-> calendar_kwargs[7].name, value |-> calendar_frequencies[5]]>>)}
TypoTexts == {ambiguous[i].text : i \in 1..Len(ambiguous)} \cup GeneratedTexts

InitTypos ==
  /\ AtRest
  /\ pc = "call"
  /\ inp \in {[op |-> "add_typos", text |-> t, rate |-> r] :
                t \in TypoTexts, r \in TypoRates}
  /\ out = NoResult

\* add_typos(inp.text, inp.rate), whatever the two draws are
AddTyposCall ==
  /\ pc = "call"
  /\ inp.op = "add_typos"
  /\ \E u \in RandomDraws, k \in 0..(Len(typo_patterns) - 1) :
       out' = [op |-> "add_typos", u |-> u, k |-> k,
               text |-> AddTyposWith(inp.text, inp.rate, u, k),
               draws |-> AddTyposDraws(inp.rate, u)]
  /\ pc' = "returned"
  /\ UNCHANGED <<process, inp>>

NextTypos == AddTyposCall

SpecTypos == InitTypos /\ [][NextTypos]_vars

\* The template list, keyword arguments and typo rate of each loop.
Fillers ==
  <<[templates |-> expense_templates, kwargs |-> expense_kwargs, rate |-> BudgetTypoRate],
    [templates |-> income_templates, kwargs |-> income_kwargs, rate |-> BudgetTypoRate],
    [templates |-> shopping_templates, kwargs |-> shopping_kwargs, rate |-> ShoppingTypoRate],
    [templates |-> reminder_templates, kwargs |-> reminder_kwargs, rate |-> ReminderTypoRate],
    [templates |-> calendar_templates, kwargs |-> calendar_kwargs, rate |-> CalendarTypoRate],
    [templates |-> note_templates, kwargs |-> note_kwargs, rate |-> NoteTypoRate],
    [templates |-> quote_templates, kwargs |-> quote_kwargs, rate |-> QuoteTypoRate]>>

\* The longest pool among the keyword arguments.
LongestPool(slots) ==
  CHOOSE n \in {Len(slots[i].pool) : i \in 1..Len(slots)} :
    \A i \in 1..Len(slots) : Len(slots[i].pool) <= n

\* The keyword arguments when the i-th random.choice draws index p + (i-1)*q.
KwargsAt(slots, p, q) ==
  [i \in 1..Len(slots) |->
     [name |-> slots[i].name,
      value |-> slots[i].pool[((p + (i - 1) * q) % Len(slots[i].pool)) + 1]]]

\* random.random() below every rate of the script, and above every one.
TypoDraws == {0, 2 ^ RandomBits - 1}

InitExpand ==
  /\ AtRest
  /\ pc = "call"
  /\ inp \in UNION {{[op |-> "expand", g |-> g, t |-> t, p |-> p, q |-> q] :
                        t \in 1..Len(Fillers[g].templates),
                        p \in 0..(LongestPool(Fillers[g].kwargs) - 1),
                        q \in 0..(MaxStride - 1)} :
                     g \in 1..Len(Fillers)}
  /\ out = NoResult

\* One pass of a generator's loop: template.format(...), then add_typos
ExpandCall ==
  /\ pc = "call"
  /\ inp.op = "expand"
  /\ LET g == Fillers[inp.g]
         example == Format(g.templates[inp.t], KwargsAt(g.kwargs, inp.p, inp.q))
     IN \E u \in TypoDraws, k \in 0..(Len(typo_patterns) - 1) :
          out' = [op |-> "expand", example |-> example,
                  text |-> AddTyposWith(example, g.rate, u, k)]
  /\ pc' = "returned"
  /\ UNCHANGED <<process, inp>>

NextExpand == ExpandCall

SpecExpand == InitExpand /\ [][NextExpand]_vars

-----------------------------------------------------------------------------
(* A generator's loop over tables other than its own: what the loop does    *)
(* when a template names a field that template.format is given no keyword   *)
(* for, or when a pool is empty.                                            *)

\* The names of the replacement fields of template from position i on.
RECURSIVE FieldNames(_, _)
FieldNames(template, i) ==
  LET opens == {j \in i..Len(template) : template[j] = "{"}
  IN IF opens = {} THEN <<>>
     ELSE LET o == CHOOSE m \in opens : \A n \in opens : m <= n
              j == CloseBrace(template, o)
          IN <<SubSeq(template, o + 1, j - 1)>> \o FieldNames(template, j + 1)

\* template.format(**kwargs) raises KeyError: a field has no keyword.
FormatRaises(template, slots) ==
  \E n \in 1..Len(FieldNames(template, 1)) :
    \A i \in 1..Len(slots) : slots[i].name # FieldNames(template, 1)[n]

\* random.choice(pool) raises IndexError for some keyword: the pool is empty.
ChoiceRaises(slots) == \E i \in 1..Len(slots) : slots[i].pool = <<>>

\* One pass of a generator's loop over the given tables, the template chosen
\* being the t-th, the pools' draws p and q, add_typos' draws u and k: the
\* exception raised, and the example appended when none is.  The keyword
\* arguments are evaluated before format is entered.
LoopPass(tables, t, p, q, u, k) ==
  IF ChoiceRaises(tables.slots)
  THEN [raised |-> "IndexError", example |-> <<>>]
  ELSE IF FormatRaises(tables.templates[t], tables.slots)
  THEN [raised |-> "KeyError", example |-> <<>>]
  ELSE [raised |-> "none",
        example |-> [text |-> AddTyposWith(Format(tables.templates[t],
                                                  KwargsAt(tables.slots, p, q)),
                                           tables.rate, u, k),
                     label |-> tables.label]]

\* A template naming a field no generator passes a keyword for.
UndeclaredTemplate == <<"{", "w", "h", "o", "m", "}", " ", "c", "a", "l", "l", "e", "d">>

\* The tables of the expense loop and of the reminder loop: as they are, with
\* UndeclaredTemplate put first among the templates, and with the list of the
\* first keyword emptied.
TablesOf(g, label, fault) ==
  [templates |-> IF fault = "undeclared slot"
                 THEN <<UndeclaredTemplate>> \o Fillers[g].templates
                 ELSE Fillers[g].templates,
   slots |-> IF fault = "empty pool"
             THEN [i \in 1..Len(Fillers[g].kwargs) |->
                     IF Fillers[g].kwargs[i].pool = Fillers[g].kwargs[1].pool
                     THEN [Fillers[g].kwargs[i] EXCEPT !.pool = <<>>]
                     ELSE Fillers[g].kwargs[i]]
             ELSE Fillers[g].kwargs,
   rate |-> Fillers[g].rate,
   label |-> label,
   fault |-> fault]

Faults == {"none", "undeclared slot", "empty pool"}

GivenTables ==
  {TablesOf(1, "BUDGET", f) : f \in Faults} \cup {TablesOf(4, "REMINDER", f) : f \in Faults}

InitTables ==
  /\ AtRest
  /\ pc = "call"
  /\ inp \in {[op |-> "generate", tables |-> tb, count |-> c] :
                tb \in GivenTables, c \in 0..MaxPasses}
  /\ out = NoResult

\* The generator is entered: examples = [] and the tables are built.  Nothing
\* is checked.
GenerateEnter ==
  /\ pc = "call"
  /\ inp.op = "generate"
  /\ out' = [op |-> "generate", examples |-> <<>>, raised |-> "none", passes |-> 0]
  /\ pc' = "loop"
  /\ UNCHANGED <<process, inp>>

\* One pass of `for _ in range(count)'
GeneratePass ==
  /\ pc = "loop"
  /\ out.passes < inp.count
  /\ \E t \in 1..Len(inp.tables.templates), p \in 0..(MaxStride - 1),
        u \in TypoDraws, k \in 0..(Len(typo_patterns) - 1) :
       LET pass == LoopPass(inp.tables, t, p, 1, u, k)
       IN IF pass.raised = "none"
          THEN /\ out' = [out EXCEPT !.examples = Append(@, pass.example),
                                     !.passes = @ + 1]
               /\ pc' = "loop"
          ELSE /\ out' = [out EXCEPT !.raised = pass.raised, !.passes = @ + 1]
               /\ pc' = "raised"
  /\ UNCHANGED <<process, inp>>

\* return examples
GenerateReturn ==
  /\ pc = "loop"
  /\ out.passes = inp.count
  /\ pc' = "returned"
  /\ UNCHANGED <<process, inp, out>>

NextTables == GenerateEnter \/ GeneratePass \/ GenerateReturn

SpecTables == InitTables /\ [][NextTables]_vars

-----------------------------------------------------------------------------
(* The script under its host: open() and the writes of json.dump may raise  *)
(* OSError, which main() does not catch, and a process that imported the     *)
(* module may call main() again.                                            *)

\* The content a call of main() found on disk: the last corpus dumped, if any.
FoundOnDisk == IF written = <<>> THEN NoFile ELSE Dumped(written[Len(written)])

\* open(output_file, 'w') raises OSError: the file is as it was.
OpenFails ==
  /\ pc = "open"
  /\ pc' = "failed"
  /\ UNCHANGED <<process, inp, out>>

\* A write of json.dump raises OSError (or the process is killed) after the
\* first n examples: the file keeps what was written, main() is left by the
\* exception.
DumpFails ==
  /\ pc = "dump"
  /\ \E n \in 0..Min(Len(train_examples), MaxPartial) :
       file' = DumpedUpTo(Output, n)
  /\ pc' = "failed"
  /\ UNCHANGED <<cfg, stream, run, rng, budget_examples, shopping_examples,
                 reminder_examples, calendar_examples, note_examples,
                 quote_examples, ambiguous_examples, all_examples, origin,
                 train_examples, test_examples, train_counts, written, inp, out>>

\* main() is called again in the process that ran it: its locals are new,
\* the random module is as the last call left it.
MainAgain ==
  /\ pc = "done"
  /\ Len(written) < MaxRuns
  /\ pc' = "budget"
  /\ budget_examples' = Unset /\ shopping_examples' = Unset
  /\ reminder_examples' = Unset /\ calendar_examples' = Unset
  /\ note_examples' = Unset /\ quote_examples' = Unset
  /\ ambiguous_examples' = Unset
  /\ all_examples' = Unset /\ origin' = Unset
  /\ train_examples' = Unset /\ test_examples' = Unset
  /\ train_counts' = Unset
  /\ UNCHANGED <<cfg, stream, run, rng, file, written, inp, out>>

NextHosted == Next \/ OpenFails \/ DumpFails \/ MainAgain

SpecHosted == Init /\ [][NextHosted]_vars

-----------------------------------------------------------------------------
(* One pass of each loop of the generators, from a given state of the       *)
(* random module.                                                           *)

\* The loops that append an example: Fillers[g] holds the tables of Loops[g]
\* for the seven loops that fill a template; the eighth goes through the
\* curated ambiguous list.
Loops ==
  <<"expense", "income", "shopping", "reminder", "calendar", "note", "quote",
    "ambiguous">>

\* The state a pass starts in: nothing appended yet, the random module in
\* state r, and for the ambiguous loop the entry the pass is at.
PassStart(g, r) ==
  IF Loops[g] = "ambiguous"
  THEN [examples |-> <<>>, rng |-> r, todo |-> <<ambiguous[(r % Len(ambiguous)) + 1]>>]
  ELSE [examples |-> <<>>, rng |-> r]

InitLoop ==
  /\ AtRest
  /\ pc = "call"
  /\ inp \in {[op |-> "pass", g |-> g, r |-> r] :
                g \in 1..Len(Loops), r \in 0..(NumPassStates - 1)}
  /\ out = NoResult

\* The body of the loop is run once.
PassCall ==
  /\ pc = "call"
  /\ inp.op = "pass"
  /\ LET done == LoopBody(Loops[inp.g], PassStart(inp.g, inp.r))
     IN out' = [op |-> "pass", examples |-> done.examples, rng |-> done.rng]
  /\ pc' = "returned"
  /\ UNCHANGED <<process, inp>>

NextLoop == PassCall

SpecLoop == InitLoop /\ [][NextLoop]_vars

-----------------------------------------------------------------------------
(* Properties *)

\* The positions of the script, in order.
Positions ==
  <<"seed", "budget", "shopping", "reminder", "calendar", "note", "quote",
    "ambiguous", "combine", "shuffle", "split", "count", "open", "dump", "done">>

PositionOf(p) == CHOOSE i \in 1..Len(Positions) : Positions[i] = p

\* The statement at position p has been executed by the running process.
Past(p) == pc \in {Positions[i] : i \in 1..Len(Positions)} /\ PositionOf(pc) > PositionOf(p)

\* The count main() requests of the generator of label l.
Requested(l) ==
  CASE l = "BUDGET" -> cfg.budget [] l = "SHOPPING" -> cfg.shopping
    [] l = "REMINDER" -> cfg.reminder [] l = "CALENDAR" -> cfg.calendar
    [] l = "NOTE" -> cfg.note [] l = "QUOTE" -> cfg.quote

\* What add_typos can return for text: text itself, or text with one rule applied.
TypoVariants(text) ==
  {text} \cup {Replace(text, typo_patterns[k][1], typo_patterns[k][2]) :
                 k \in 1..Len(typo_patterns)}

\* C1: for every total >= 1 of assembled examples, after the split
\* |train| = floor(total * 9/10) and |test| = total - |train|; train is the
\* shuffled sequence's positions [0, split_index) and test is [split_index, total).
C1_SplitRatio ==
  (Past("split") /\ Len(all_examples) >= 1) =>
    LET total == Len(all_examples)
        split_index == (total * SplitTenths) \div 10
    IN /\ Len(train_examples) = split_index
       /\ Len(test_examples) = total - Len(train_examples)
       /\ train_examples = SubSeq(all_examples, 1, split_index)
       /\ test_examples = SubSeq(all_examples, split_index + 1, total)

\* A split of 17 examples, where total * 9/10 is no integer.
C1_Witness ==
  /\ pc = "count"
  /\ Len(all_examples) = 17
  /\ Len(train_examples) = 15
  /\ Len(test_examples) = 2

\* C2 as stated: the run configured with 400, 400, 300, 300, 500, 300 and 100
\* assembles 2,300 examples and splits them into 2,070 and 230.
C2_AsStated ==
  (cfg = MainConfig /\ pc = "done") =>
    /\ Len(all_examples) = 2300
    /\ Len(train_examples) = 2070
    /\ Len(test_examples) = 230

\* C2, amended: the configured run assembles 2,219 examples, the 100 ambiguous
\* examples requested being the 19 of the curated list, and splits them into
\* 1,997 and 222.
C2_ConfiguredRun ==
  (cfg = MainConfig /\ pc = "done") =>
    /\ Len(all_examples) = 2219
    /\ Len(train_examples) = 1997
    /\ Len(test_examples) = 222

\* The configured run has finished, with every curated ambiguous entry in it.
C2_Witness ==
  /\ cfg = MainConfig
  /\ pc = "done"
  /\ Len(ambiguous_examples) = Len(ambiguous)
  /\ Len(budget_examples) = MainBudgetCount

\* C3: generate_ambiguous_examples(count) returns min(count, L) examples, L the
\* length of the curated list: never more than L, none repeated; the i-th comes
\* from the i-th curated entry, with its label and its text as add_typos returns it.
C3_AmbiguousBound ==
  Past("ambiguous") =>
    LET n == Min(cfg.ambiguous, Len(ambiguous))
    IN /\ Len(ambiguous_examples) = n
       /\ \A i \in 1..n :
            /\ ambiguous_examples[i].label = ambiguous[i].label
            /\ ambiguous_examples[i].text \in TypoVariants(ambiguous[i].text)

\* More examples were requested than the curated list holds.
C3_Witness ==
  /\ pc = "combine"
  /\ cfg.ambiguous = Len(ambiguous) + 1
  /\ Len(ambiguous_examples) = Len(ambiguous)

\* C4: for each of the six categories, the examples of its label in train and
\* test together, those of the ambiguous set aside, are as many as requested.
C4_LabelCoverage ==
  (pc = "done") =>
    \A l \in Labels :
      CountLabel(train_examples, l) + CountLabel(test_examples, l)
        - CountLabel(ambiguous_examples, l) = Requested(l)

\* C5: two runs of the script with the same configuration write the same
\* corpus: the same partition, the same text and label at every position.
C5_Determinism ==
  \A i, j \in 1..Len(written) : written[i] = written[j]

\* A second process has run to its end and written a corpus with both parts.
C5_Witness ==
  /\ run >= 2
  /\ pc = "done"
  /\ Len(written) >= 2
  /\ Len(written[2].train) >= 2
  /\ Len(written[2].test) >= 1

\* C6: add_typos returns text unchanged whenever its draw u is >= rate; so
\* with rate 0 it returns text unchanged for every draw, u = 0 included.
C6_UnchangedAtOrAboveRate ==
  (out.op = "add_typos" /\ 100 * out.u >= inp.rate * (2 ^ RandomBits)) =>
    out.text = inp.text

\* C7: whatever the template, the pool values and the typo rule, the text of
\* a produced example holds no "{" and no "}".
C7_NoPlaceholder ==
  (out.op = "expand") =>
    \A i \in 1..Len(out.text) : out.text[i] \notin {"{", "}"}

\* "{item} {item2} and {item3}" filled, and a typo rule applied to the result.
C7_Witness ==
  /\ out.op = "expand"
  /\ Fillers[inp.g].templates[inp.t] = shopping_templates[12]
  /\ out.text # out.example

\* C8: every example of train and of test, the ambiguous ones included,
\* carries one of the six category names, so the label lookup of the training
\* stage raises no ValueError on them.
C8_ValidLabels ==
  Past("split") =>
    /\ \A i \in 1..Len(train_examples) : train_examples[i].label \in Labels
    /\ \A i \in 1..Len(test_examples) : test_examples[i].label \in Labels
    /\ prepare_dataset(train_examples).raised = "none"
    /\ prepare_dataset(test_examples).raised = "none"

\* A finished run whose test part holds an ambiguous example.
C8_Witness ==
  /\ pc = "done"
  /\ cfg.ambiguous > 0
  /\ \E i \in 1..Len(test_examples) :
       origin[Len(train_examples) + i] > Len(Combined) - Len(ambiguous_examples)

\* C9: the shuffled sequence is a permutation of the concatenation of the
\* generators' outputs, train followed by test is the shuffled sequence, and
\* |train| + |test| is the number of generated examples.
C9_NothingLostOrDuplicated ==
  /\ Past("shuffle") =>
       /\ Len(all_examples) = Len(Combined)
       /\ Len(origin) = Len(Combined)
       /\ {origin[i] : i \in 1..Len(origin)} = 1..Len(Combined)
       /\ \A i \in 1..Len(all_examples) : all_examples[i] = Combined[origin[i]]
  /\ Past("split") =>
       /\ train_examples \o test_examples = all_examples
       /\ Len(train_examples) + Len(test_examples) = Len(Combined)

\* The shuffle moved examples, and both parts are not empty.
C9_Witness ==
  /\ pc = "done"
  /\ origin # Identity(Len(origin))
  /\ Len(train_examples) >= 2
  /\ Len(test_examples) >= 1

\* C10: what a generator returns for a count does not depend on the generators
\* called before it: it is what the generator returns when called first.
C10_GeneratorsIndependent ==
  /\ Past("budget") =>
       budget_examples = generate_budget_examples(cfg.budget, SeedState(stream)).examples
  /\ Past("shopping") =>
       shopping_examples = generate_shopping_examples(cfg.shopping, SeedState(stream)).examples
  /\ Past("reminder") =>
       reminder_examples = generate_reminder_examples(cfg.reminder, SeedState(stream)).examples
  /\ Past("calendar") =>
       calendar_examples = generate_calendar_examples(cfg.calendar, SeedState(stream)).examples
  /\ Past("note") =>
       note_examples = generate_note_examples(cfg.note, SeedState(stream)).examples
  /\ Past("quote") =>
       quote_examples = generate_quote_examples(cfg.quote, SeedState(stream)).examples
  /\ Past("ambiguous") =>
       ambiguous_examples = generate_ambiguous_examples(cfg.ambiguous, SeedState(stream)).examples

C12_AtomicWrite ==
  (pc = "failed") => (file = FoundOnDisk \/ file = Dumped(Output))

\* C13: main() called twice in one process, with the same configuration,
\* yields the same corpus both times.
C13_StatelessBetweenCalls ==
  (pc = "done" /\ run = 1 /\ Len(written) = 2) => written[2] = written[1]

\* The positions of text where old occurs.
MatchesOf(text, old) ==
  {i \in 1..(Len(text) - Len(old) + 1) : SubSeq(text, i, i + Len(old) - 1) = old}

\* The occurrences a replacement of all non-overlapping occurrences takes:
\* every occurrence that does not begin inside a taken one.
TakenOf(text, old) ==
  CHOOSE S \in SUBSET MatchesOf(text, old) :
    \A i \in MatchesOf(text, old) :
      i \in S <=> ~ \E j \in S : j < i /\ i < j + Len(old)

\* result is text with the occurrences of old in S replaced by new and every
\* other character kept, in order.
ReplacedAt(result, text, S, old, new) ==
  LET delta == Len(new) - Len(old)
      moved(i) == i + delta * Cardinality({s \in S : s < i})
  IN /\ Len(result) = Len(text) + delta * Cardinality(S)
     /\ \A s \in S : SubSeq(result, moved(s), moved(s) + Len(new) - 1) = new
     /\ \A i \in 1..Len(text) :
          (~ \E s \in S : s <= i /\ i < s + Len(old)) => result[moved(i)] = text[i]

\* The rule a returned call of add_typos chose.
ChosenRule == typo_patterns[out.k + 1]

\* The call of add_typos went on to mutate: its draw was not above the rate.
Mutating == out.op = "add_typos" /\ 100 * out.u <= inp.rate * (2 ^ RandomBits)

\* C14: when add_typos mutates, it applies one rule of the 14-entry table:
\* the text returned is text with all non-overlapping occurrences of the
\* rule's match replaced by its replacement, found as substrings (inside
\* words too), everything else unchanged, and no other rule applied.
C14_OneRuleAllOccurrences ==
  Mutating =>
    /\ Len(typo_patterns) = 14
    /\ out.k \in 0..13
    /\ ReplacedAt(out.text, inp.text, TakenOf(inp.text, ChosenRule[1]),
                  ChosenRule[1], ChosenRule[2])

\* "standup every tuesday and thursday": 'and' -> 'adn' rewrites the word
\* and the inside of 'standup'.
C14_Witness ==
  /\ Mutating
  /\ inp.text \in GeneratedTexts
  /\ ChosenRule[1] = <<"a", "n", "d">>
  /\ Cardinality(TakenOf(inp.text, ChosenRule[1])) = 2
  /\ out.text = <<"s", "t", "a", "d", "n", "u", "p", " ", "e", "v", "e", "r", "y", " ",
                  "t", "u", "e", "s", "d", "a", "y", " ", "a", "d", "n", " ",
                  "t", "h", "u", "r", "s", "d", "a", "y">>

\* C15: when the match of the rule chosen does not occur in text, add_typos
\* returns text unchanged, having drawn once for the rule (two draws in all);
\* so a text holding none of the table's matches is returned unchanged
\* whatever the rate and the draws.
C15_AbsentMatchNoRetry ==
  /\ (Mutating /\ MatchesOf(inp.text, ChosenRule[1]) = {}) =>
       (out.text = inp.text /\ out.draws = 2)
  /\ (out.op = "add_typos"
        /\ \A m \in 1..Len(typo_patterns) : MatchesOf(inp.text, typo_patterns[m][1]) = {}) =>
       out.text = inp.text

\* 'pick up bread on the way home' with the rule 'and' -> 'adn' chosen: 'the'
\* occurs, 'and' does not.
C15_Witness ==
  /\ Mutating
  /\ inp.text = ambiguous[3].text
  /\ inp.rate = 100
  /\ ChosenRule[1] = <<"a", "n", "d">>
  /\ MatchesOf(inp.text, typo_patterns[1][1]) # {}
  /\ out.text = inp.text

\* The state of the random module n draws after r.
RECURSIVE AfterDraws(_, _)
AfterDraws(r, n) == IF n = 0 THEN r ELSE AfterDraws(Advance(r), n - 1)

\* A pass of one of the seven loops that fill a template has returned.
Filled == out.op = "pass" /\ Loops[inp.g] # "ambiguous"

\* For such a pass: the template its first draw chose, and the keyword
\* arguments when the i-th keyword takes the (i+1)-th draw of the pass.
PassTemplate == Choice(Fillers[inp.g].templates, inp.r)
PassKwargs ==
  [i \in 1..Len(Fillers[inp.g].kwargs) |->
     [name |-> Fillers[inp.g].kwargs[i].name,
      value |-> Choice(Fillers[inp.g].kwargs[i].pool, AfterDraws(inp.r, i))]]

ClaimedRates == <<15, 15, 12, 12, 12, 12, 10, 15>>

\* For a pass: the text before add_typos (the template fully expanded, or the
\* curated text), and the draws made before add_typos is called.
PassExpanded ==
  IF Loops[inp.g] = "ambiguous" THEN PassStart(inp.g, inp.r).todo[1].text
  ELSE Format(PassTemplate, PassKwargs)
PassDrawsBefore ==
  IF Loops[inp.g] = "ambiguous" THEN 0 ELSE 1 + Len(Fillers[inp.g].kwargs)

\* C17: a pass of a loop calls add_typos exactly once, on the expanded text
\* and before appending, with the loop's own rate (0.15 budget and ambiguous,
\* 0.12 shopping, reminder, calendar and note, 0.10 quote): the one example
\* appended is the expanded text when the draw is above that rate and the
\* expanded text with the rule drawn applied when it is below, and the draws
\* made after the expansion are those of one call.
C17_NoiseOncePerExample ==
  (out.op = "pass") =>
    LET s == AfterDraws(inp.r, PassDrawsBefore)
        u == Random(s)
        rule == typo_patterns[RandBelow(Advance(s), Len(typo_patterns)) + 1]
        above == 100 * u > ClaimedRates[inp.g] * (2 ^ RandomBits)
    IN /\ Len(out.examples) = 1
       /\ above => (out.examples[1].text = PassExpanded /\ out.rng = AfterDraws(s, 1))
       /\ ~above =>
            /\ ReplacedAt(out.examples[1].text, PassExpanded,
                          TakenOf(PassExpanded, rule[1]), rule[1], rule[2])
            /\ out.rng = AfterDraws(s, 2)

\* A pass of the quote loop whose draw fell below 0.10 and whose rule matched.
C17_Witness ==
  /\ out.op = "pass"
  /\ Loops[inp.g] = "quote"
  /\ 100 * Random(AfterDraws(inp.r, PassDrawsBefore)) < QuoteTypoRate * (2 ^ RandomBits)
  /\ out.examples[1].text # PassExpanded

\* C18: generate_budget_examples(count) emits floor(0.7 * count) examples of
\* the expense loop followed by floor(0.3 * count) examples of the income
\* loop, whatever the caller passes.
C18_BudgetSeventyThirty ==
  Past("budget") =>
    LET expense == Iterate("expense", (7 * cfg.budget) \div 10,
                           [examples |-> <<>>, rng |-> SeedState(stream)])
        income == Iterate("income", (3 * cfg.budget) \div 10, expense)
    IN budget_examples = income.examples

\* The sum of counts over the labels of keys.
RECURSIVE SumCounts(_, _)
SumCounts(counts, keys) ==
  IF keys = {} THEN 0
  ELSE LET l == CHOOSE k \in keys : TRUE
       IN counts[l] + SumCounts(counts, keys \ {l})

\* The report is that of train: its counts sum to |train|, and a label's
\* count is the number of train examples carrying it (no entry when none does).
ReportOfTrain ==
  /\ SumCounts(train_counts, DOMAIN train_counts) = Len(train_examples)
  /\ \A l \in Labels :
       LET n == Cardinality({i \in 1..Len(train_examples) : train_examples[i].label = l})
       IN IF n = 0 THEN l \notin DOMAIN train_counts
          ELSE l \in DOMAIN train_counts /\ train_counts[l] = n

\* C19: the per-label report is computed over train only and is purely
\* observational: once computed it is the report of train; computing it
\* changes neither train, test, the random module nor the file; and the
\* corpus written afterwards is the train and test the split produced.
C19_ReportObservational ==
  /\ [](Past("count") => ReportOfTrain)
  /\ [][pc = "count" =>
          /\ train_examples' = train_examples
          /\ test_examples' = test_examples
          /\ all_examples' = all_examples
          /\ rng' = rng
          /\ file' = file
          /\ written' = written]_vars
  /\ [](pc = "done" =>
          /\ train_examples \o test_examples = all_examples
          /\ written[Len(written)] = [train |-> train_examples, test |-> test_examples]
          /\ file = Dumped(written[Len(written)]))

\* A report with several labels, over a train that is not the whole corpus:
\* a label of test is missing from the report.
C19_Witness ==
  /\ pc = "open"
  /\ Cardinality(DOMAIN train_counts) >= 2
  /\ \E i \in 1..Len(test_examples) : test_examples[i].label \notin DOMAIN train_counts

\* What the seven generators return when called in the order BUDGET,
\* SHOPPING, REMINDER, CALENDAR, NOTE, QUOTE, ambiguous, each from the state
\* of the random module the one before left, the first from the seeded state.
InOrder ==
  LET b == generate_budget_examples(cfg.budget, SeedState(stream))
      s == generate_shopping_examples(cfg.shopping, b.rng)
      r == generate_reminder_examples(cfg.reminder, s.rng)
      c == generate_calendar_examples(cfg.calendar, r.rng)
      n == generate_note_examples(cfg.note, c.rng)
      q == generate_quote_examples(cfg.quote, n.rng)
      a == generate_ambiguous_examples(cfg.ambiguous, q.rng)
  IN [parts |-> <<b.examples, s.examples, r.examples, c.examples, n.examples,
                  q.examples, a.examples>>,
      rng |-> a.rng]

\* The step after position p: the next statement, the next process after the
\* last, or the end of the process by an exception.
FollowsInOrder(p, q) ==
  \/ q = "failed"
  \/ p = "done" /\ q = "seed"
  \/ p # "done" /\ p # "failed" /\ q = Positions[PositionOf(p) + 1]

\* C20: the steps occur in a fixed order.  The generators run in the order
\* BUDGET, SHOPPING, REMINDER, CALENDAR, NOTE, QUOTE, ambiguous and are
\* concatenated in that order; the examples are reordered by the shuffle
\* only, after the concatenation; the split follows; the file is untouched
\* until all of these are done, so a run that an error ends during
\* generation has written nothing.
C20_FixedOrder ==
  /\ [][pc' # pc => FollowsInOrder(pc, pc')]_vars
  /\ [](pc = "shuffle" =>
          /\ <<budget_examples, shopping_examples, reminder_examples,
               calendar_examples, note_examples, quote_examples,
               ambiguous_examples>> = InOrder.parts
          /\ rng = InOrder.rng
          /\ all_examples = budget_examples \o shopping_examples \o reminder_examples
                              \o calendar_examples \o note_examples \o quote_examples
                              \o ambiguous_examples)
  /\ [][all_examples' # all_examples => (pc \in {"combine", "shuffle"} \/ pc' = "seed")]_vars
  /\ [][(train_examples' # train_examples \/ test_examples' # test_examples) =>
          (pc = "split" \/ pc' = "seed")]_vars
  /\ [](Past("split") => train_examples \o test_examples = all_examples)
  /\ [][file' # file => (pc \in {"open", "dump"} /\ Past("split"))]_vars
  /\ [](pc = "failed" => (file = FoundOnDisk /\ all_examples = Unset))

\* A second run has generated, shuffled, split and counted with three
\* generators contributing, and the file still holds the first run's corpus.
C20_Witness ==
  /\ pc = "open"
  /\ run = 2
  /\ file = FoundOnDisk
  /\ Cardinality({l \in Labels : CountLabel(all_examples, l) > 0}) >= 3
  /\ all_examples # Combined

\* The states of the random module in which the first n curated texts are
\* handed to the noise injector, the first in r: a text costs one draw when
\* the draw exceeds 0.15 and two when it does not.
RECURSIVE NoiseStates(_, _)
NoiseStates(r, n) ==
  IF n = 0 THEN <<>>
  ELSE <<r>> \o NoiseStates(IF 100 * Random(r) > 15 * (2 ^ RandomBits)
                            THEN Advance(r) ELSE Advance(Advance(r)), n - 1)

\* C21: the ambiguous generator emits the curated entries in list order, each
\* with its curated label; the text of an entry is the curated literal when
\* the injector's draw exceeds 0.15, and otherwise the literal with exactly
\* one rule of the typo table, the one drawn, applied to it.
C21_AmbiguousThroughNoise ==
  [][(pc = "ambiguous" /\ pc' = "combine") =>
       LET n == Min(cfg.ambiguous, Len(ambiguous))
           before == NoiseStates(rng, n)
       IN /\ Len(ambiguous_examples') = n
          /\ \A i \in 1..n :
               LET rule == typo_patterns[RandBelow(Advance(before[i]), Len(typo_patterns)) + 1]
               IN /\ ambiguous_examples'[i].label = ambiguous[i].label
                  /\ IF 100 * Random(before[i]) > 15 * (2 ^ RandomBits)
                     THEN ambiguous_examples'[i].text = ambiguous[i].text
                     ELSE ReplacedAt(ambiguous_examples'[i].text, ambiguous[i].text,
                                     TakenOf(ambiguous[i].text, rule[1]), rule[1], rule[2])]_vars

\* An emitted ambiguous example whose text is not the curated literal.
C21_Witness ==
  /\ pc = "combine"
  /\ \E i \in 1..Len(ambiguous_examples) :
       /\ ambiguous_examples[i].label = ambiguous[i].label
       /\ ambiguous_examples[i].text # ambiguous[i].text

\* The label totals the configured run is said to have.
ConfiguredTotals ==
  [BUDGET |-> 403, SHOPPING |-> 406, REMINDER |-> 304, CALENDAR |-> 303,
   NOTE |-> 503, QUOTE |-> 300]

\* C22: in the configured run the label totals over train and test together
\* are BUDGET 403, SHOPPING 406, REMINDER 304, CALENDAR 303, NOTE 503 and
\* QUOTE 300 whatever the draws, each the count requested of the label's
\* generator plus the curated ambiguous entries of that label; the examples
\* are 2,219 in all, and none from the ambiguous set carries QUOTE.
C22_ConfiguredLabelTotals ==
  (cfg = MainConfig /\ Past("split")) =>
    LET both == train_examples \o test_examples
        generated == MainBudgetCount + MainShoppingCount + MainReminderCount
                       + MainCalendarCount + MainNoteCount + MainQuoteCount
    IN /\ Len(both) = 2219
       /\ DOMAIN ConfiguredTotals = Labels
       /\ \A l \in Labels :
            /\ CountLabel(both, l) = ConfiguredTotals[l]
            /\ ConfiguredTotals[l] = Requested(l) + CountLabel(ambiguous, l)
       /\ \A i \in 1..Len(all_examples) :
            origin[i] > generated => all_examples[i].label # "QUOTE"
       /\ \A i \in 1..Len(ambiguous_examples) : ambiguous_examples[i].label # "QUOTE"

\* The configured run has split its examples, and an example of the
\* ambiguous set lies in the test part.
C22_Witness ==
  /\ cfg = MainConfig
  /\ pc = "count"
  /\ \E i \in (Len(train_examples) + 1)..Len(all_examples) :
       origin[i] > Len(all_examples) - Len(ambiguous_examples)

=============================================================================
